---- MODULE Spec2Model ----
(***************************************************************************)
(* Model of the nphysics step pipeline: the island-based activation        *)
(* manager (src/detection/activation_manager.rs) and the joint manager     *)
(* (src/detection/joint/joint_manager.rs).                                 *)
(*                                                                         *)
(* Scalars are integers.  The energy mixing factor is the rational         *)
(* mix_factor / MixDen, so the running average of update_energy is         *)
(* computed in integer arithmetic (floor division).                        *)
(***************************************************************************)
EXTENDS Integers, Sequences, FiniteSets, TLC

(* ------------------------------ bounds -------------------------------- *)
\* Number of rigid bodies of the world.
NumBodies == 3
\* Largest deactivation threshold a body may carry.
MaxThreshold == 1
\* Largest |lin_vel|^2 + |ang_vel|^2 the integrator gives a body.
MaxVel2 == 8
\* Largest numerator of the mixing factor (MixDen is the denominator).
MaxMix == 1
\* Largest number of contacts of a contact pair.
MaxColls == 1
\* Longest pending wake list.
MaxPending == 2
\* Longest reverse list of a body.
MaxJointsPerBody == 2

\* Denominator of the mixing factor: mix_factor = n / MixDen.
MixDen == 2
\* Number of joint objects the user owns.
NumJoints == 2

\* Longest constraint slice handed to the solver.
MaxConstraints == 2
\* Deepest penetration of a contact.
MaxDepth == 1
\* CorrectionMode::min_depth_for_pos_corr() of the solver's configuration.
MinDepth == 1
\* Largest velocity delta projected_gauss_seidel_solve leaves for a body.
MaxDelta == 1
\* Largest impulse projected_gauss_seidel_solve leaves in a row.
MaxImpulse == 20
\* Largest velocity and largest translation a body reaches.
MaxLinVel == 1
MaxPos == 1
\* Number of bodies that may be registered for CCD (the fast bodies).
NumCCD == 1
\* Largest motion threshold a body is registered with.
MaxMotionThreshold == 1
\* Largest translation a fast body reaches, and its largest step.
MaxTranslation == 4
MaxStep == 3
\* Times of impact are multiples of 1 / TOIDen.
TOIDen == 2
\* Largest position the user gives an anchor.
MaxLocal == 1
Locals == 0 .. MaxLocal

BodyIds == 1 .. NumBodies
JointIds == 1 .. NumJoints
\* Option::None of deactivation_threshold().
NoThreshold == -1
\* Option::None of Anchor::body (the anchor is pinned to the world).
World == 0
\* Energy of a freshly created dynamic body (well above 4 * threshold).
InitEnergy == 4 * MaxThreshold + 1

VARIABLES
    bodies,          \* body id -> RigidBody
    mix_factor,      \* ActivationManager.mix_factor (numerator over MixDen)
    ufind,           \* ActivationManager.ufind
    can_deactivate,  \* ActivationManager.can_deactivate
    to_activate,     \* ActivationManager.to_activate
    contacts,        \* the contact pairs the world handed to the last update
    voted,           \* the bodies as the island vote of the last update saw them
    consumed,        \* the pending list the last update consumed
    joints,          \* JointManager.joints: joint id -> Constraint
    body2joints,     \* JointManager.body2joints: body id -> Vec<Constraint>
    joint_objs,      \* joint id -> the joint object the user owns
    lin_vel,         \* body id -> RigidBody.lin_vel, as solver and CCD see it
    pos,             \* body id -> translation of RigidBody.position()
    cache,           \* AccumulatedImpulseSolver.cache
    mj_lambda,       \* AccumulatedImpulseSolver.mj_lambda
    solved,          \* what the last solve was given and did
    correction,      \* AccumulatedImpulseSolver.correction (CorrectionParameters)
    objects,         \* TranslationalCCDMotionClamping.objects: body id -> CCDBody
    clamped,         \* what the last CCD update saw and did, per body
    cw,              \* what the last CCD update asked of the collision world
    locks,           \* the lock requests of the last pass that was traced
    op               \* the operation that produced the current state

avars == <<mix_factor, ufind, can_deactivate, to_activate>>
jvars == <<joints, body2joints>>
hvars == <<contacts, voted, consumed, locks>>
\* Velocities and transforms of the bodies.
kvars == <<lin_vel, pos>>
\* The constraint solver.
svars == <<cache, mj_lambda, solved, correction>>
\* The CCD pass.
cvars == <<objects, clamped, cw>>
vars == <<bodies, mix_factor, ufind, can_deactivate, to_activate, contacts,
          voted, consumed, joints, body2joints, joint_objs, lin_vel, pos,
          cache, mj_lambda, solved, correction, objects, clamped, cw, locks, op>>

Thresholds == {NoThreshold} \cup (1 .. MaxThreshold)
Velocities == {0, MaxVel2}

(* ------------------------------ helpers ------------------------------- *)
\* No pass has been traced yet.
NoLocks == [pass |-> "none", given |-> <<>>, events |-> <<>>]

Min(a, b) == IF a < b THEN a ELSE b

\* The contact pairs the broad phase tracks: neighbouring bodies.
Pairs == {p \in BodyIds \X BodyIds : p[2] = p[1] + 1}

\* The order in which contact_pairs hands the pairs to its callback.
RECURSIVE SetToSeq(_)
SetToSeq(S) ==
    IF S = {} THEN <<>>
    ELSE LET x == CHOOSE y \in S : \A z \in S :
                     y[1] < z[1] \/ (y[1] = z[1] /\ y[2] <= z[2])
         IN <<x>> \o SetToSeq(S \ {x})

(* ------------------------------ RigidBody ----------------------------- *)
is_active(b) == b.state # "Inactive"

\* ActivationState::energy()
energy(b) == IF b.state = "Active" THEN b.energy ELSE 0

activate(b, e) == [b EXCEPT !.state = "Active", !.energy = e]

deactivate(b) == [b EXCEPT !.state = "Inactive", !.energy = 0]

set_index(b, i) == [b EXCEPT !.index = i]

(* ------------------------------ joints -------------------------------- *)
\* The joint objects the user owns: joint 1 is a fixed joint between bodies
\* 2 and 3, joint 2 a ball-in-socket between the world and body 3, any
\* further joint a ball-in-socket between bodies 1 and 2.
JointKind(j) == IF j = 1 THEN "Fixed" ELSE "BallInSocket"
anchor1(j) == IF j = 1 THEN 2 ELSE IF j = 2 THEN World ELSE 1
anchor2(j) == IF j = 1 THEN 3 ELSE IF j = 2 THEN 3 ELSE 2

\* An add that files its joint as a contact entry.
Constraint_contact(tag, j) == [tag |-> "RBRB", joint |-> j]

\* enum Constraint, as stored in the joint table and the reverse lists: a
\* joint entry names its joint, a contact entry (tag "RBRB") its two bodies
\* b1 and b2.
Constraint(tag, j) == [tag |-> tag, joint |-> j]

\* Fixed::new: a joint object starts not up to date; local1 is the position
\* of its first anchor.
NewJoint == [up_to_date |-> FALSE, local1 |-> 0]

\* F applied to v, with v and the result computed once and in full (TLC
\* otherwise re-evaluates an argument at each of its uses).
Strict(F(_), v) == CHOOSE r \in {F(x) : x \in {y \in {v} : y = y}} : r = r

(* ------------------------------ union-find ---------------------------- *)
\* UnionFindSet::reinit over the whole buffer: every node its own root.
reinit(n) == [i \in 0 .. n - 1 |-> [parent |-> i, rank |-> 0]]

RECURSIVE root(_, _)
root(x, ufs) == IF ufs[x].parent = x THEN x ELSE root(ufs[x].parent, ufs)

\* The nodes on the path from x to its root, the root excluded.
RECURSIVE path(_, _)
path(x, ufs) == IF ufs[x].parent = x THEN {} ELSE {x} \cup path(ufs[x].parent, ufs)

\* union_find::find: returns the root and compresses the path to it.
find(x, ufs) ==
    Strict(LAMBDA r :
          [root |-> r,
           ufs  |-> [i \in DOMAIN ufs |->
                       IF i \in path(x, ufs) THEN [ufs[i] EXCEPT !.parent = r]
                       ELSE ufs[i]]],
        root(x, ufs))

\* union_find::union: union by rank of the two roots.
link(xr, yr, u) ==
    IF xr = yr THEN u
    ELSE IF u[xr].rank < u[yr].rank THEN [u EXCEPT ![xr].parent = yr]
    ELSE IF u[xr].rank > u[yr].rank THEN [u EXCEPT ![yr].parent = xr]
    ELSE [u EXCEPT ![yr].parent = xr, ![xr].rank = u[xr].rank + 1]

union(x, y, ufs) ==
    Strict(LAMBDA fx :
          Strict(LAMBDA fy : link(fx.root, fy.root, fy.ufs), find(y, fx.ufs)),
        find(x, ufs))

(* ------------------------------ ActivationManager --------------------- *)
\* ActivationManager::update_energy
\* update_energy without the clamp to four times the threshold.
update_energy_unclamped(b, sqvel) ==
    IF b.threshold # NoThreshold
    THEN activate(b, ((MixDen - mix_factor) * energy(b) + mix_factor * sqvel)
                     \div MixDen)
    ELSE b

\* sqvel is na::sqnorm(&b.lin_vel()) + na::sqnorm(&b.ang_vel()).
update_energy(b, sqvel) ==
    IF b.threshold # NoThreshold
    THEN LET new_energy == ((MixDen - mix_factor) * energy(b)
                            + mix_factor * sqvel) \div MixDen
         IN activate(b, Min(new_energy, b.threshold * 4))
    ELSE b

\* First loop of update: energy of the active bodies, index of every body.
UpdateEnergies(bs, vel) ==
    [i \in BodyIds |->
        set_index(IF is_active(bs[i]) THEN update_energy(bs[i], vel[i]) ELSE bs[i],
                  i - 1)]

\* The bodies in state ActivationState::Deleted.
Deleted(bs) == {i \in BodyIds : bs[i].state = "Deleted"}
FirstOf(S) == CHOOSE i \in S : \A k \in S : i <= k

\* The first loop of update stopped by its assertion at body k.
UpdateEnergiesUntil(bs, vel, k) ==
    [i \in BodyIds |-> IF i < k THEN UpdateEnergies(bs, vel)[i] ELSE bs[i]]

\* The second loop forgotten: the pending bodies are not woken.
ActivatePending_skip(bs, pending) == bs

\* Second loop of update: wake the pending bodies, in list order.
RECURSIVE ActivatePending(_, _)
ActivatePending(bs, pending) ==
    IF pending = <<>> THEN bs
    ELSE LET b == Head(pending)
         IN Strict(LAMBDA woken : ActivatePending(woken, Tail(pending)),
                IF bs[b].threshold # NoThreshold
                THEN [bs EXCEPT ![b] = activate(bs[b], bs[b].threshold * 2)]
                ELSE bs)

\* make_union without the can_move test.
make_union_any(b1, b2, ufs, bs) == union(bs[b1].index, bs[b2].index, ufs)

\* fn make_union
make_union(b1, b2, ufs, bs) ==
    IF bs[b1].can_move /\ bs[b2].can_move
    THEN union(bs[b1].index, bs[b2].index, ufs)
    ELSE ufs

\* world.contact_pairs(|b1, b2, cd| ...)
RECURSIVE UnionContacts(_, _, _, _)
UnionContacts(ps, cs, ufs, bs) ==
    IF ps = <<>> THEN ufs
    ELSE LET p == Head(ps)
         IN Strict(LAMBDA u : UnionContacts(Tail(ps), cs, u, bs),
                IF cs[p] # 0 THEN make_union(p[1], p[2], ufs, bs) ELSE ufs)

\* One arm of the match on a joint table entry.
UnionJoint(c, ufs, bs) ==
    IF c.tag = "RBRB" THEN make_union(c.b1, c.b2, ufs, bs)
    ELSE IF anchor1(c.joint) # World /\ anchor2(c.joint) # World
         THEN make_union(anchor1(c.joint), anchor2(c.joint), ufs, bs)
         ELSE ufs

\* for e in joints.joints().elements().iter()
RECURSIVE UnionJoints(_, _, _, _)
UnionJoints(js, jt, ufs, bs) ==
    IF js = {} THEN ufs
    ELSE LET j == CHOOSE k \in js : \A l \in js : k <= l
         IN Strict(LAMBDA u : UnionJoints(js \ {j}, jt, u, bs),
                UnionJoint(jt[j], ufs, bs))

\* The union-find forest after the contact and joint edges.
BuildIslands(bs, cs, jt) ==
    Strict(LAMBDA u : UnionJoints(DOMAIN jt, jt, u, bs),
        UnionContacts(SetToSeq(Pairs), cs, reinit(NumBodies), bs))

\* The vote with <= in place of <.
VoteOf_le(b, flag) ==
    IF b.threshold # NoThreshold THEN flag /\ energy(b) <= b.threshold ELSE FALSE

\* The vote where a body without threshold leaves the flag as it is.
VoteOf_none_keeps(b, flag) ==
    IF b.threshold # NoThreshold THEN flag /\ energy(b) < b.threshold ELSE flag

\* Vote of one body on the can_deactivate flag of its root.
VoteOf(b, flag) ==
    IF b.threshold # NoThreshold THEN flag /\ energy(b) < b.threshold ELSE FALSE

\* "Find deactivable islands": returns the flags and the compressed forest.
RECURSIVE Vote(_, _, _, _)
Vote(i, ufs, cd, bs) ==
    IF i >= NumBodies THEN [ufs |-> ufs, cd |-> cd]
    ELSE Strict(LAMBDA f :
               Strict(LAMBDA c : Vote(i + 1, f.ufs, c, bs),
                   [cd EXCEPT ![f.root] = VoteOf(bs[i + 1], cd[f.root])]),
             find(i, ufs))

\* The commit without the reactivation branch.
CommitOf_no_wake(b, flag) == IF flag THEN deactivate(b) ELSE b

\* "Activate/deactivate islands" for one body.
CommitOf(b, flag) ==
    IF flag THEN deactivate(b)
    ELSE IF ~is_active(b) /\ b.can_move
         THEN IF b.threshold # NoThreshold
              THEN activate(b, b.threshold * 2)
              ELSE b
         ELSE b

Commit(ufs, cd, bs) ==
    [i \in BodyIds |-> CommitOf(bs[i], cd[root(i - 1, ufs)])]

\* will_activate without its test.
will_activate_any(pending, b) == Append(pending, b)

\* ActivationManager::will_activate
will_activate(pending, b) ==
    IF bodies[b].can_move /\ ~is_active(bodies[b])
    THEN Append(pending, b)
    ELSE pending

\* ActivationManager::update, as a function of the state it reads.
UpdateResult(bs, vel, pending, cs, jt) ==
    Strict(LAMBDA woken :
          Strict(LAMBDA vote :
                [bodies         |-> Commit(vote.ufs, vote.cd, woken),
                 ufind          |-> vote.ufs,
                 can_deactivate |-> vote.cd,
                 voted          |-> woken],
              Vote(0, BuildIslands(woken, cs, jt),
                   [i \in 0 .. NumBodies - 1 |-> TRUE], woken)),
        ActivatePending(UpdateEnergies(bs, vel), pending))

\* An immovable body has no velocity.
SqVelocities ==
    {v \in [BodyIds -> Velocities] : \A b \in BodyIds : ~bodies[b].can_move => v[b] = 0}

\* The integrator and the solver leave body b with the squared
\* velocity vel[b], the collision world hands over its contact pairs cs,
\* then update runs.
\* When a body is Deleted the assertion of the first loop fails at the first
\* such body, after the bodies before it had their energy and index written.
ActivationStep(vels) ==
    \E vel \in vels, cs \in [Pairs -> 0 .. MaxColls] :
        IF Deleted(bodies) # {}
        THEN /\ bodies' = UpdateEnergiesUntil(bodies, vel, FirstOf(Deleted(bodies)))
             /\ op' = "panic"
             /\ UNCHANGED <<avars, hvars, jvars, joint_objs, kvars, svars, cvars>>
        ELSE \E r \in {UpdateResult(bodies, vel, to_activate, cs, joints)} :
                /\ bodies' = r.bodies
                /\ ufind' = r.ufind
                /\ can_deactivate' = r.can_deactivate
                /\ to_activate' = <<>>
                /\ contacts' = cs
                /\ voted' = r.voted
                /\ consumed' = to_activate
                /\ locks' = locks
                /\ op' = "update"
                /\ UNCHANGED <<mix_factor, jvars, joint_objs, kvars, svars, cvars>>

ActivationUpdate == ActivationStep(SqVelocities)

\* The user wakes a body by hand.
WillActivate(b) ==
    /\ Len(to_activate) < MaxPending
    /\ to_activate' = will_activate(to_activate, b)
    /\ op' = "will_activate"
    /\ UNCHANGED <<bodies, mix_factor, ufind, can_deactivate, hvars, jvars,
                   joint_objs, kvars, svars, cvars>>

(* ------------------------------ JointManager -------------------------- *)
\* The anchors of joint j that have a body, first anchor first.
AnchorBodies(j) ==
    (IF anchor1(j) # World THEN <<anchor1(j)>> ELSE <<>>)
        \o (IF anchor2(j) # World THEN <<anchor2(j)>> ELSE <<>>)

\* body2joints.find_or_insert_lazy(b, || Some(Vec::new())).push(c)
PushReverse(b2j, b, c) ==
    IF b \in DOMAIN b2j
    THEN [b2j EXCEPT ![b] = Append(b2j[b], c)]
    ELSE [x \in DOMAIN b2j \cup {b} |-> IF x = b THEN <<c>> ELSE b2j[x]]

RECURSIVE PushAll(_, _, _)
PushAll(b2j, bs, c) ==
    IF bs = <<>> THEN b2j ELSE PushAll(PushReverse(b2j, Head(bs), c), Tail(bs), c)

RECURSIVE WillActivateAll(_, _)
WillActivateAll(pending, bs) ==
    IF bs = <<>> THEN pending
    ELSE WillActivateAll(will_activate(pending, Head(bs)), Tail(bs))

\* joints.insert(key, value): inserts or replaces.
TableInsert(jt, j, c) ==
    [x \in DOMAIN jt \cup {j} |-> IF x = j THEN c ELSE jt[x]]

\* joints.remove(key)
TableRemove(jt, j) == [x \in DOMAIN jt \ {j} |-> jt[x]]

Bounded(pending, b2j) ==
    /\ Len(pending) <= MaxPending
    /\ \A b \in DOMAIN b2j : Len(b2j[b]) <= MaxJointsPerBody

\* The add that does not look at the result of joints.insert.
AddJoint_always(j, tag) ==
    /\ joints' = TableInsert(joints, j, Constraint(tag, j))
    /\ to_activate' = WillActivateAll(to_activate, AnchorBodies(j))
    /\ body2joints' = PushAll(body2joints, AnchorBodies(j), Constraint(tag, j))
    /\ Bounded(to_activate', body2joints')
    /\ UNCHANGED <<bodies, mix_factor, ufind, can_deactivate, hvars,
                   joint_objs, kvars, svars, cvars>>

\* Body shared by add_ball_in_socket and add_fixed.
AddJoint(j, tag) ==
    /\ joints' = TableInsert(joints, j, Constraint(tag, j))
    /\ IF j \notin DOMAIN joints
       THEN /\ to_activate' = WillActivateAll(to_activate, AnchorBodies(j))
            /\ body2joints' = PushAll(body2joints, AnchorBodies(j), Constraint(tag, j))
       ELSE UNCHANGED <<to_activate, body2joints>>
    /\ Bounded(to_activate', body2joints')
    /\ UNCHANGED <<bodies, mix_factor, ufind, can_deactivate, hvars,
                   joint_objs, kvars, svars, cvars>>

add_ball_in_socket(j) ==
    /\ JointKind(j) = "BallInSocket"
    /\ AddJoint(j, "BallInSocket")
    /\ op' = "add_ball_in_socket"

add_fixed(j) ==
    /\ JointKind(j) = "Fixed"
    /\ AddJoint(j, "Fixed")
    /\ op' = "add_fixed"

remove_ball_in_socket(j) ==
    /\ JointKind(j) = "BallInSocket"
    /\ joints' = TableRemove(joints, j)
    /\ IF j \in DOMAIN joints
       THEN to_activate' = WillActivateAll(to_activate, AnchorBodies(j))
       ELSE UNCHANGED to_activate
    /\ Bounded(to_activate', body2joints)
    /\ op' = "remove_ball_in_socket"
    /\ UNCHANGED <<bodies, mix_factor, ufind, can_deactivate, hvars, body2joints,
                   joint_objs, kvars, svars, cvars>>

\* The id the retain closure of remove_joint_for_body computes for an entry.
EntryId(c) == IF c.tag = "RBRB" THEN 0 ELSE c.joint

\* JointManager::remove_joint_for_body, on the reverse index.
remove_joint_for_body(b2j, j, b) ==
    IF b # World /\ b \in DOMAIN b2j
    THEN [b2j EXCEPT ![b] = SelectSeq(b2j[b], LAMBDA c : EntryId(c) # j)]
    ELSE b2j

remove_joint(j) ==
    /\ joints' = TableRemove(joints, j)
    /\ IF j \in DOMAIN joints
       THEN /\ to_activate' = WillActivateAll(to_activate, AnchorBodies(j))
            /\ body2joints' =
                 remove_joint_for_body(
                     remove_joint_for_body(body2joints, j, anchor1(j)), j, anchor2(j))
       ELSE UNCHANGED <<to_activate, body2joints>>
    /\ Bounded(to_activate', body2joints')
    /\ op' = "remove_joint"
    /\ UNCHANGED <<bodies, mix_factor, ufind, can_deactivate, hvars,
                   joint_objs, kvars, svars, cvars>>

\* do_remove_first is the walk that only looks at the joints b is the first
\* anchor of.
\* JointManager::remove: the reverse list of b is taken out of the index and,
\* for each joint of it whose first anchor has a body, the joint is erased
\* from the reverse list of the body at the other end, which is scheduled.
\* The joint table is not touched.
RECURSIVE do_remove_first(_, _, _)
do_remove_first(st, list, b) ==
    IF list = <<>> THEN st
    ELSE LET j == EntryId(Head(list))
         IN  IF anchor1(j) # b \/ anchor2(j) = World
             THEN do_remove_first(st, Tail(list), b)
             ELSE do_remove_first(
                      [pending |-> will_activate(st.pending, anchor2(j)),
                       b2j     |-> remove_joint_for_body(st.b2j, j, anchor2(j))],
                      Tail(list), b)

RECURSIVE do_remove(_, _, _)
do_remove(st, list, b) ==
    IF list = <<>> THEN st
    ELSE LET j == EntryId(Head(list))
             other == IF anchor1(j) = b THEN anchor2(j) ELSE anchor1(j)
         IN  IF anchor1(j) = World \/ other = World
             THEN do_remove(st, Tail(list), b)
             ELSE do_remove(
                      [pending |-> will_activate(st.pending, other),
                       b2j     |-> remove_joint_for_body(st.b2j, j, other)],
                      Tail(list), b)

\* The entries a loop of the manager visits before its match reaches a
\* contact entry and panics: all of them when there is none.
RECURSIVE UntilContact(_)
UntilContact(q) ==
    IF q = <<>> \/ Head(q).tag = "RBRB" THEN <<>>
    ELSE <<Head(q)>> \o UntilContact(Tail(q))

remove(b) ==
    /\ \E list \in {IF b \in DOMAIN body2joints THEN body2joints[b] ELSE <<>>} :
          \E r \in {do_remove([pending |-> to_activate,
                                b2j |-> [x \in DOMAIN body2joints \ {b} |-> body2joints[x]]],
                               UntilContact(list), b)} :
              /\ to_activate' = r.pending
              /\ body2joints' = r.b2j
              /\ op' = IF UntilContact(list) = list THEN "remove" ELSE "panic"
    /\ Bounded(to_activate', body2joints')
    /\ UNCHANGED <<bodies, mix_factor, ufind, can_deactivate, hvars, joints,
                   joint_objs, kvars, svars, cvars>>

\* Fixed::set_local1: a new position invalidates the joint.
set_local1(j, local1) ==
    /\ JointKind(j) = "Fixed"
    /\ joint_objs' =
          IF local1 # joint_objs[j].local1
          THEN [joint_objs EXCEPT ![j] = [up_to_date |-> FALSE, local1 |-> local1]]
          ELSE joint_objs
    /\ op' = "set_local1"
    /\ UNCHANGED <<bodies, avars, hvars, jvars, kvars, svars, cvars>>

\* The orders in which joints.elements() may list the joints of the table.
Orders(S) ==
    {q \in [1 .. Cardinality(S) -> S] : \A x \in S : \E i \in DOMAIN q : q[i] = x}

\* The loop of JointManager::update that forgets to mark the joint.
RECURSIVE UpdateJoints_no_mark(_, _)
UpdateJoints_no_mark(st, ord) ==
    IF ord = <<>> THEN st
    ELSE IF st.objs[Head(ord)].up_to_date
         THEN UpdateJoints_no_mark(st, Tail(ord))
         ELSE UpdateJoints_no_mark(
                  [objs    |-> st.objs,
                   pending |-> WillActivateAll(st.pending, AnchorBodies(Head(ord)))],
                  Tail(ord))

\* The loop of JointManager::update that wakes no body.
RECURSIVE UpdateJoints_no_wake(_, _)
UpdateJoints_no_wake(st, ord) ==
    IF ord = <<>> THEN st
    ELSE UpdateJoints_no_wake(
             [objs    |-> [st.objs EXCEPT ![Head(ord)].up_to_date = TRUE],
              pending |-> st.pending],
             Tail(ord))

\* The loop of JointManager::update over the joints of the table in the
\* order ord: a joint that is not up to date is marked and its anchor bodies
\* are scheduled.
RECURSIVE UpdateJoints(_, _)
UpdateJoints(st, ord) ==
    IF ord = <<>> THEN st
    ELSE IF st.objs[Head(ord)].up_to_date
         THEN UpdateJoints(st, Tail(ord))
         ELSE UpdateJoints(
                  [objs    |-> [st.objs EXCEPT ![Head(ord)].up_to_date = TRUE],
                   pending |-> WillActivateAll(st.pending, AnchorBodies(Head(ord)))],
                  Tail(ord))

\* The joints of the order ord update visits before a contact entry stops it.
JointsUntilContact(ord) ==
    SubSeq(ord, 1, Len(UntilContact([i \in DOMAIN ord |-> joints[ord[i]]])))

JointUpdate ==
    /\ \E ord \in Orders(DOMAIN joints) :
          \E r \in {UpdateJoints([objs |-> joint_objs, pending |-> to_activate],
                                 JointsUntilContact(ord))} :
              /\ joint_objs' = r.objs
              /\ to_activate' = r.pending
              /\ op' = IF JointsUntilContact(ord) = ord THEN "joint_update" ELSE "panic"
    /\ Len(to_activate') <= MaxPending
    /\ UNCHANGED <<bodies, mix_factor, ufind, can_deactivate, hvars, jvars,
                   kvars, svars, cvars>>

(* ------------------------------ ImpulseCache -------------------------- *)
\* The cache keeps, for the contacts of the previous solve (hash_prev,
\* cache_prev) and of the current one (hash_next, cache_next), an entry
\* [ci, key, imp] per contact and a region of impulse slots.  The key of a
\* contact is its pair of bodies (a pair has one contact point here); ci is
\* the position of the contact in the slice and imp the slot of its impulses.
NewCache ==
    [hash_prev |-> <<>>, cache_prev |-> <<>>, hash_next |-> <<>>, cache_next |-> <<>>]

\* ImpulseCache::insert: the entry takes the slot its key had in the
\* previous solve (0 when it had none) and replaces an entry of the same key.
cache_insert(c, ci, b1, b2) ==
    LET key  == <<b1, b2>>
        old  == {i \in DOMAIN c.hash_prev : c.hash_prev[i].key = key}
        e    == [ci |-> ci, key |-> key,
                 imp |-> IF old = {} THEN 0 ELSE c.hash_prev[CHOOSE i \in old : TRUE].imp]
        same == {i \in DOMAIN c.hash_next : c.hash_next[i].key = key}
    IN  IF same = {}
        THEN [c EXCEPT !.hash_next = Append(@, e)]
        ELSE [c EXCEPT !.hash_next[CHOOSE i \in same : TRUE] = e]

\* ImpulseCache::len
cache_len(c) == Len(c.hash_next)

\* ImpulseCache::push_impulsions, with the value written to the new slot.
push_impulsions(c, imp) == [c EXCEPT !.cache_next = Append(@, imp)]

\* ImpulseCache::swap: the current region becomes the previous one.
cache_swap(c) ==
    [hash_prev |-> c.hash_next, cache_prev |-> c.cache_next,
     hash_next |-> <<>>, cache_next |-> <<>>]

(* ------------------------------ AccumulatedImpulseSolver -------------- *)
\* imps[0] = dv.impulse * 0.85
ImpulseKeep == 85
ImpulseDen == 100

Contact(b1, b2, depth) == [tag |-> "RBRB", b1 |-> b1, b2 |-> b2, depth |-> depth]

\* The bodies a constraint mentions, in the order the solver visits them.
Mentions(c) ==
    IF c.tag = "RBRB" THEN <<c.b1, c.b2>> ELSE AnchorBodies(c.joint)

\* The state solve works on: the world's bodies, the solver's fields and the
\* locals of solve (id, the dense body list, the joint list); log lists the
\* phases solve went through and rows the layout of its row buffers.
SolveState ==
    [bodies |-> bodies, lin_vel |-> lin_vel, pos |-> pos, cache |-> cache,
     mj_lambda |-> mj_lambda, id |-> 0, blist |-> <<>>, jlist |-> <<>>,
     log |-> <<>>, rows |-> <<>>]

\* "Associate the constraints with the cached impulse": contacts only.
RECURSIVE CacheAssociate(_, _, _)
CacheAssociate(st, cs, i) ==
    IF i > Len(cs) THEN [st EXCEPT !.log = Append(@, "insert")]
    ELSE Strict(LAMBDA s1 : CacheAssociate(s1, cs, i + 1),
                IF cs[i].tag = "RBRB"
                THEN [st EXCEPT !.cache = cache_insert(@, i, cs[i].b1, cs[i].b2)]
                ELSE st)

\* The first pass that marks every body of the world.
MarkBodies_all(st, cs) ==
    [st EXCEPT !.bodies = [b \in BodyIds |-> set_index(st.bodies[b], -2)],
               !.log = Append(@, "mark")]

\* First pass: index -2 on every body a constraint mentions.
MarkBodies(st, cs) ==
    LET mentioned == UNION {{Mentions(cs[i])[k] : k \in DOMAIN Mentions(cs[i])} :
                               i \in DOMAIN cs}
    IN  [st EXCEPT !.bodies = [b \in BodyIds |->
                                  IF b \in mentioned THEN set_index(st.bodies[b], -2)
                                  ELSE st.bodies[b]],
                   !.log = Append(@, "mark")]

\* set_body_index that gives an immovable body a dense index too.
set_body_index_all(st, a) ==
    IF st.bodies[a].index = -2
    THEN [st EXCEPT !.bodies[a] = set_index(@, st.id),
                    !.blist = Append(@, a),
                    !.id = @ + 1]
    ELSE st

\* set_body_index that does not look at the index the body has.
set_body_index_again(st, a) ==
    IF st.bodies[a].can_move
    THEN [st EXCEPT !.bodies[a] = set_index(@, st.id),
                    !.blist = Append(@, a),
                    !.id = @ + 1]
    ELSE [st EXCEPT !.bodies[a] = set_index(@, -1)]

set_body_index(st, a) ==
    IF st.bodies[a].index = -2
    THEN IF st.bodies[a].can_move
         THEN [st EXCEPT !.bodies[a] = set_index(@, st.id),
                         !.blist = Append(@, a),
                         !.id = @ + 1]
         ELSE [st EXCEPT !.bodies[a] = set_index(@, -1)]
    ELSE st

RECURSIVE IndexMentioned(_, _)
IndexMentioned(st, bs) ==
    IF bs = <<>> THEN st
    ELSE Strict(LAMBDA s1 : IndexMentioned(s1, Tail(bs)),
                set_body_index(st, Head(bs)))

\* Second pass: dense indices in order of first sight, and the joint list.
RECURSIVE IndexBodies(_, _, _)
IndexBodies(st, cs, i) ==
    IF i > Len(cs) THEN [st EXCEPT !.log = Append(@, "index")]
    ELSE Strict(LAMBDA s1 : IndexBodies(s1, cs, i + 1),
                IndexMentioned(
                    IF cs[i].tag = "RBRB" THEN st
                    ELSE [st EXCEPT !.jlist = Append(@, i)],
                    Mentions(cs[i])))

\* resize_buffer(&mut self.mj_lambda, bodies.len(), ..) followed by a run of
\* projected_gauss_seidel_solve, which leaves the delta d in every slot.
Solved(st, d) == [st EXCEPT !.mj_lambda = [i \in 1 .. Len(st.blist) |-> d]]

\* The velocity pass: each body of the dense list takes the delta of its
\* slot of mj_lambda.
SecondOrder(st, dv) ==
    LET s1 == Solved(st, dv)
    IN  [s1 EXCEPT !.lin_vel = [b \in BodyIds |->
                       IF \E k \in DOMAIN st.blist : st.blist[k] = b
                       THEN st.lin_vel[b] + s1.mj_lambda[st.bodies[b].index + 1]
                       ELSE st.lin_vel[b]],
                   !.log = Append(@, "velocity")]

\* The write-back: one slot per cached contact, holding 0.85 times the
\* impulse imps the solver left in its row, and the entry is pointed at its
\* slot.
RECURSIVE WriteBack(_, _, _)
WriteBack(st, imps, i) ==
    IF i > cache_len(st.cache) THEN [st EXCEPT !.log = Append(@, "write_back")]
    ELSE Strict(LAMBDA s1 : WriteBack(s1, imps, i + 1),
                [st EXCEPT
                    !.cache = [push_impulsions(@, (imps * ImpulseKeep) \div ImpulseDen)
                                  EXCEPT !.hash_next[i].imp = i]])

\* A correction mode with position correction: pos_corr_factor() is not
\* zero and min_depth_for_pos_corr() is MinDepth.
PositionCorrection == [pos_corr_factor |-> 1]

\* needs_correction that lets a joint ask for the position pass.
needs_correction_joints(cs) ==
    /\ correction.pos_corr_factor # 0
    /\ \E i \in DOMAIN cs : cs[i].tag = "RBRB" => cs[i].depth >= MinDepth

\* The position pass runs when pos_corr_factor is not zero and some contact
\* is deep enough.
needs_correction(cs) ==
    /\ correction.pos_corr_factor # 0
    /\ \E i \in DOMAIN cs : cs[i].tag = "RBRB" /\ cs[i].depth >= MinDepth

\* The position pass: the solver leaves the pseudo-velocity dp in the slots
\* of mj_lambda and each body of the list is translated by its own (dt = 1).
FirstOrder(st, dp) ==
    LET s1 == Solved(st, dp)
    IN  [s1 EXCEPT !.pos = [b \in BodyIds |->
                       IF \E k \in DOMAIN st.blist : st.blist[k] = b
                       THEN st.pos[b] + s1.mj_lambda[st.bodies[b].index + 1]
                       ELSE st.pos[b]],
                   !.log = Append(@, "position")]

\* na::dim::<Vect>() in the 2D and the 3D build, and na::dim::<Orientation>().
Dims == {2, 3}
OrientationDim(D) == IF D = 2 THEN 1 ELSE 3

\* The rows a constraint of the joint list adds to the restitution buffer.
JointRows(D, c) ==
    IF c.tag = "BallInSocket" THEN D
    ELSE IF c.tag = "Fixed" THEN D + OrientationDim(D)
    ELSE 0

\* num_joint_equations
RECURSIVE NumJointEquations(_, _, _)
NumJointEquations(D, cs, jl) ==
    IF jl = <<>> THEN 0
    ELSE JointRows(D, cs[Head(jl)]) + NumJointEquations(D, cs, Tail(jl))

\* The contact fill that moves friction_offset on by a row too many.
RECURSIVE FillContacts_wide(_, _, _, _)
FillContacts_wide(D, n, i, friction_offset) ==
    IF i >= n THEN <<>>
    ELSE <<[rest |-> i, fric |-> {friction_offset + j : j \in 0 .. D - 2}]>>
             \o FillContacts_wide(D, n, i + 1, friction_offset + D)

\* The contact fill: fill_second_order_equation writes restitution row i and
\* the D - 1 friction rows from friction_offset on, for each of the n
\* entries of the cache.
RECURSIVE FillContacts(_, _, _, _)
FillContacts(D, n, i, friction_offset) ==
    IF i >= n THEN <<>>
    ELSE <<[rest |-> i, fric |-> {friction_offset + j : j \in 0 .. D - 2}]>>
             \o FillContacts(D, n, i + 1, friction_offset + D - 1)

\* The joint fill: each joint writes its rows at the start of the slice
\* from joint_offset to the end of the restitution buffer.
RECURSIVE FillJoints(_, _, _, _, _)
FillJoints(D, cs, jl, joint_offset, nconstraints) ==
    IF jl = <<>> THEN <<>>
    ELSE <<[ci    |-> Head(jl),
            slice |-> joint_offset .. nconstraints - 1,
            rows  |-> {joint_offset + k : k \in 0 .. JointRows(D, cs[Head(jl)]) - 1}]>>
             \o FillJoints(D, cs, Tail(jl),
                           joint_offset + JointRows(D, cs[Head(jl)]), nconstraints)

\* The rows the buffers have and the rows each step of do_solve touches, in
\* the build of dimension D: the fills, the write-back after the buffers
\* were cut back, and the position pass.
RowLayout(D, st, cs) ==
    LET num_friction_equations    == (D - 1) * cache_len(st.cache)
        num_restitution_equations == cache_len(st.cache)
        num_joint_equations       == NumJointEquations(D, cs, st.jlist)
    IN  [rest_len   |-> num_restitution_equations + num_joint_equations,
         fric_len   |-> num_friction_equations,
         contacts   |-> FillContacts(D, cache_len(st.cache), 0, 0),
         joints     |-> FillJoints(D, cs, st.jlist, num_restitution_equations,
                                   num_restitution_equations + num_joint_equations),
         write_back |-> [i \in 1 .. num_restitution_equations |->
                            [rest |-> i - 1,
                             fric |-> {(i - 1) * (D - 1) + j : j \in 0 .. D - 2}]],
         first_order |-> IF needs_correction(cs)
                         THEN <<[rest_len |-> num_restitution_equations,
                                 fric_len |-> 0,
                                 reinit   |-> 0 .. cache_len(st.cache) - 1]>>
                         ELSE <<>>]

Assemble(st, cs) == [st EXCEPT !.rows = [D \in Dims |-> RowLayout(D, st, cs)]]

do_solve(st, cs, dv, imps, dp) ==
    Strict(LAMBDA s2 : IF needs_correction(cs) THEN FirstOrder(s2, dp) ELSE s2,
           Strict(LAMBDA s1 : WriteBack(s1, imps, 1),
                  SecondOrder(Assemble(st, cs), dv)))

\* The passes of solve on a non-empty slice, up to the swap of the cache.
SolvePasses(st, cs, dv, imps, dp) ==
    Strict(LAMBDA s3 : do_solve(s3, cs, dv, imps, dp),
           Strict(LAMBDA s2 : IndexBodies(s2, cs, 1),
                  Strict(LAMBDA s1 : MarkBodies(s1, cs),
                         CacheAssociate(st, cs, 1))))

\* self.cache.swap() at the end of solve.
SwapCache(st) == [st EXCEPT !.cache = cache_swap(@), !.log = Append(@, "swap")]

\* solve that swaps the cache whether or not the slice is empty.
solve_swap_always(st, cs, dv, imps, dp) ==
    IF Len(cs) # 0
    THEN Strict(SwapCache, SolvePasses(st, cs, dv, imps, dp))
    ELSE SwapCache(st)

\* AccumulatedImpulseSolver::solve
solve(st, cs, dv, imps, dp) ==
    IF Len(cs) # 0
    THEN Strict(SwapCache, SolvePasses(st, cs, dv, imps, dp))
    ELSE st

\* The constraints the collector may hand over: a contact between two
\* bodies, or a joint.
ContactPool ==
    {Contact(b1, b2, d) : b1 \in BodyIds, b2 \in BodyIds, d \in 0 .. MaxDepth}
JointPool == {Constraint(JointKind(j), j) : j \in JointIds}
ConstraintPool ==
    {c \in ContactPool : <<c.b1, c.b2>> \in Pairs} \cup JointPool

\* The slices: no two contacts of a slice are between the same bodies.
ConstraintSlices ==
    {cs \in UNION {[1 .. n -> ConstraintPool] : n \in 0 .. MaxConstraints} :
        \A i, k \in DOMAIN cs :
            (i # k /\ cs[i].tag = "RBRB" /\ cs[k].tag = "RBRB")
                => <<cs[i].b1, cs[i].b2>> # <<cs[k].b1, cs[k].b2>>}

NoSolve ==
    [constraints |-> <<>>, blist |-> <<>>, jlist |-> <<>>, log |-> <<>>, rows |-> <<>>]

\* One call of solve on the slice cs; dv, imps and dp are what the two runs
\* of projected_gauss_seidel_solve leave behind.
SolveSlice(cs) ==
    \E dv \in IF cs = <<>> THEN {0} ELSE 0 .. MaxDelta,
       dp \in IF needs_correction(cs) THEN 0 .. MaxDelta ELSE {0},
       imps \in {MaxImpulse} :
        \E r \in {Strict(LAMBDA s0 : solve(s0, cs, dv, imps, dp), SolveState)} :
            /\ bodies' = r.bodies
            /\ lin_vel' = r.lin_vel
            /\ pos' = r.pos
            /\ cache' = r.cache
            /\ mj_lambda' = r.mj_lambda
            /\ correction' = correction
            /\ solved' = [constraints |-> cs, blist |-> r.blist,
                          jlist |-> r.jlist, log |-> r.log, rows |-> r.rows]
            /\ \A b \in BodyIds :
                   /\ lin_vel'[b] <= MaxLinVel
                   /\ pos'[b] # pos[b] => pos'[b] <= MaxPos
            /\ op' = "solve"
            /\ UNCHANGED <<avars, hvars, jvars, joint_objs, cvars>>

Solve == \E cs \in ConstraintSlices : SolveSlice(cs)

(* ------------------------------ TranslationalCCDMotionClamping ------- *)
\* Translations are integers and a time of impact is the integer t for the
\* time t / TOIDen; a query returns a time whose impact point is on the grid.
CCDIds == 1 .. NumCCD
\* Option::None of shape_against_shape.
NoToi == -1
\* The times a query may return: up to one step beyond the end of the motion.
Tois == {NoToi} \cup (0 .. TOIDen + 1)

\* The collision world before any CCD update: no set_next_position, no
\* update.
NoRequest == [next_position |-> <<>>, updated |-> FALSE]

\* CCDBody::new
CCDBody(b, threshold) ==
    [sqthreshold |-> threshold * threshold, last_pos |-> pos[b], accept_zero |-> TRUE]

\* add_ccd_to: objects.insert(body.uid(), CCDBody::new(body, motion_threshold))
add_ccd_to(b, threshold) ==
    /\ objects' = [x \in DOMAIN objects \cup {b} |->
                      IF x = b THEN CCDBody(b, threshold) ELSE objects[x]]
    /\ op' = "add_ccd_to"
    /\ UNCHANGED <<bodies, avars, hvars, jvars, joint_objs, kvars, svars, clamped, cw>>

\* remove_ccd_from: objects.remove(&body.uid())
remove_ccd_from(b) ==
    /\ objects' = [x \in DOMAIN objects \ {b} |-> objects[x]]
    /\ op' = "remove_ccd_from"
    /\ UNCHANGED <<bodies, avars, hvars, jvars, joint_objs, kvars, svars, clamped, cw>>

\* The callback of interferences_with_aabb that accepts a time of 0 whatever
\* accept_zero says.
RECURSIVE MinToi_zero(_, _, _, _)
MinToi_zero(acc, b, o, tois) ==
    IF \A rb2 \in BodyIds : rb2 <= acc.seen THEN acc
    ELSE LET rb2 == acc.seen + 1
             t   == tois[rb2]
         IN  MinToi_zero(
                 IF rb2 # b /\ t # NoToi /\ t <= acc.min_toi
                 THEN [seen |-> rb2, toi_found |-> TRUE, min_toi |-> t]
                 ELSE [acc EXCEPT !.seen = rb2],
                 b, o, tois)

\* The callback of interferences_with_aabb that also queries the body itself.
RECURSIVE MinToi_self(_, _, _, _)
MinToi_self(acc, b, o, tois) ==
    IF \A rb2 \in BodyIds : rb2 <= acc.seen THEN acc
    ELSE LET rb2 == acc.seen + 1
             t   == tois[rb2]
         IN  MinToi_self(
                 IF t # NoToi /\ t <= acc.min_toi
                 THEN [seen |-> rb2, toi_found |-> TRUE,
                       min_toi |-> IF t > 0 \/ o.accept_zero THEN t ELSE acc.min_toi]
                 ELSE [acc EXCEPT !.seen = rb2],
                 b, o, tois)

\* The callback that takes every time it is handed, also one after the
\* minimum so far.
toi_callback_last(acc, b, o, rb2, t) ==
    IF rb2 # b /\ t # NoToi
    THEN [acc EXCEPT !.toi_found = TRUE,
                     !.min_toi = IF t > 0 \/ o.accept_zero THEN t ELSE @]
    ELSE acc

\* The callback of interferences_with_aabb for the body rb2, whose time of
\* impact against b is t (NoToi when rb2 is not hit).  t > _eps holds of
\* every time but 0.
toi_callback(acc, b, o, rb2, t) ==
    IF rb2 # b /\ t # NoToi /\ t <= acc.min_toi
    THEN [acc EXCEPT !.toi_found = TRUE,
                     !.min_toi = IF t > 0 \/ o.accept_zero THEN t ELSE @]
    ELSE acc

\* The callback run over the bodies in order: tois[rb2] is the time of
\* impact of b against rb2 (NoToi when rb2 is not in the swept box).
RECURSIVE MinToi(_, _, _, _)
MinToi(acc, b, o, tois) ==
    IF \A rb2 \in BodyIds : rb2 <= acc.seen THEN acc
    ELSE LET rb2 == acc.seen + 1
         IN  MinToi([toi_callback(acc, b, o, rb2, tois[rb2]) EXCEPT !.seen = rb2],
                    b, o, tois)

\* The callback run over the bodies in the order ord in which the collision
\* world lists them.
RECURSIVE MinToiIn(_, _, _, _, _)
MinToiIn(acc, b, o, tois, ord) ==
    IF ord = <<>> THEN acc
    ELSE MinToiIn(toi_callback(acc, b, o, Head(ord), tois[Head(ord)]),
                  b, o, tois, Tail(ord))

\* The body of the loop of update that sends a body without impact back to
\* last_pos.
ClampBody_stop(b, o, p, tois) ==
    LET movement == p - o.last_pos
    IN  IF movement * movement > o.sqthreshold
        THEN LET r  == MinToi([seen |-> 0, toi_found |-> FALSE, min_toi |-> TOIDen],
                              b, o, tois)
                 np == IF r.toi_found
                       THEN p - (movement * (TOIDen - r.min_toi)) \div TOIDen
                       ELSE o.last_pos
             IN  [pos |-> np, notify |-> TRUE,
                  obj |-> [o EXCEPT !.accept_zero = ~r.toi_found, !.last_pos = np],
                  rec |-> [used |-> TRUE, tois |-> tois, last_pos |-> o.last_pos,
                           toi_found |-> r.toi_found, min_toi |-> r.min_toi]]
        ELSE [pos |-> p, notify |-> FALSE,
              obj |-> [o EXCEPT !.last_pos = p],
              rec |-> [used |-> FALSE, tois |-> tois, last_pos |-> o.last_pos,
                       toi_found |-> FALSE, min_toi |-> TOIDen]]

\* The body of the loop of update that records last_pos only for a body
\* over its threshold.
ClampBody_keep_last(b, o, p, tois) ==
    LET movement == p - o.last_pos
    IN  IF movement * movement > o.sqthreshold
        THEN LET r  == MinToi([seen |-> 0, toi_found |-> FALSE, min_toi |-> TOIDen],
                              b, o, tois)
                 np == IF r.toi_found
                       THEN p - (movement * (TOIDen - r.min_toi)) \div TOIDen
                       ELSE p
             IN  [pos |-> np, notify |-> TRUE,
                  obj |-> [o EXCEPT !.accept_zero = ~r.toi_found, !.last_pos = np],
                  rec |-> [used |-> TRUE, tois |-> tois, last_pos |-> o.last_pos,
                           toi_found |-> r.toi_found, min_toi |-> r.min_toi]]
        ELSE [pos |-> p, notify |-> FALSE,
              obj |-> o,
              rec |-> [used |-> FALSE, tois |-> tois, last_pos |-> o.last_pos,
                       toi_found |-> FALSE, min_toi |-> TOIDen]]

\* The body of the loop of update that forgets the rewind.
ClampBody_no_rewind(b, o, p, tois) ==
    LET movement == p - o.last_pos
    IN  IF movement * movement > o.sqthreshold
        THEN LET r == MinToi([seen |-> 0, toi_found |-> FALSE, min_toi |-> TOIDen],
                             b, o, tois)
             IN  [pos |-> p, notify |-> TRUE,
                  obj |-> [o EXCEPT !.accept_zero = ~r.toi_found, !.last_pos = p],
                  rec |-> [used |-> TRUE, tois |-> tois, last_pos |-> o.last_pos,
                           toi_found |-> r.toi_found, min_toi |-> r.min_toi]]
        ELSE [pos |-> p, notify |-> FALSE,
              obj |-> [o EXCEPT !.last_pos = p],
              rec |-> [used |-> FALSE, tois |-> tois, last_pos |-> o.last_pos,
                       toi_found |-> FALSE, min_toi |-> TOIDen]]

\* The body of the loop of update for the registered body b at translation
\* p: the new translation, the new CCDBody, and a record of what was seen.
ClampBody(b, o, p, tois) ==
    LET movement == p - o.last_pos
    IN  IF movement * movement > o.sqthreshold
        THEN LET r  == MinToi([seen |-> 0, toi_found |-> FALSE, min_toi |-> TOIDen],
                              b, o, tois)
                 np == IF r.toi_found
                       THEN p - (movement * (TOIDen - r.min_toi)) \div TOIDen
                       ELSE p
             IN  [pos |-> np, notify |-> TRUE,
                  obj |-> [o EXCEPT !.accept_zero = ~r.toi_found, !.last_pos = np],
                  rec |-> [used |-> TRUE, tois |-> tois, last_pos |-> o.last_pos,
                           toi_found |-> r.toi_found, min_toi |-> r.min_toi]]
        ELSE [pos |-> p, notify |-> FALSE,
              obj |-> [o EXCEPT !.last_pos = p],
              rec |-> [used |-> FALSE, tois |-> tois, last_pos |-> o.last_pos,
                       toi_found |-> FALSE, min_toi |-> TOIDen]]

\* The answers the collision world may give for the registered bodies: the
\* impact point of every time lies on the grid.
\* A body is in its own swept box, where the query finds it in touch at
\* time 0 or finds nothing.
TimesOfImpact ==
    {q \in [DOMAIN objects -> [BodyIds -> Tois]] :
        \A b \in DOMAIN objects :
            /\ q[b][b] \in {NoToi, 0}
            /\ \A rb2 \in BodyIds :
                   q[b][rb2] # NoToi =>
                       (((pos[b] - objects[b].last_pos) * q[b][rb2]) % TOIDen = 0)}

\* TranslationalCCDMotionClamping::update
CCDStep(answers) ==
    /\ \E q \in answers :
          \E r \in {Strict(LAMBDA x : x,
                           [b \in DOMAIN objects |->
                               ClampBody(b, objects[b], pos[b], q[b])])} :
              /\ pos' = [b \in BodyIds |->
                            IF b \in DOMAIN objects THEN r[b].pos ELSE pos[b]]
              /\ objects' = [b \in DOMAIN objects |-> r[b].obj]
              /\ clamped' = [b \in DOMAIN objects |-> r[b].rec]
              /\ cw' = [next_position |->
                            [b \in {x \in DOMAIN objects : r[x].notify} |-> r[b].pos],
                        updated |-> \E b \in DOMAIN objects : r[b].notify]
    /\ op' = "ccd_update"
    /\ UNCHANGED <<bodies, avars, hvars, jvars, joint_objs, lin_vel, svars>>

CCDUpdate == CCDStep(TimesOfImpact)

\* The integrator, or the user, translates the fast body b by d.
Move(b, d) ==
    /\ pos[b] + d \in 0 .. MaxTranslation
    /\ pos' = [pos EXCEPT ![b] = @ + d]
    /\ op' = "move"
    /\ UNCHANGED <<bodies, avars, hvars, jvars, joint_objs, lin_vel, svars, cvars>>

(* ------------------------------ specification ------------------------- *)
\* RigidBody::new: a body starts awake with a large energy, or asleep.
NewBody(m, t, a) ==
    [can_move |-> m, threshold |-> t, index |-> 0,
     state |-> IF a THEN "Active" ELSE "Inactive",
     energy |-> IF a THEN InitEnergy ELSE 0]

\* The scenes: the first and the last body are dynamic, the bodies between
\* them dynamic or static; only the last body may lack a threshold; the
\* bodies start all awake or all asleep.
Movabilities == {m \in [BodyIds -> BOOLEAN] : m[1] /\ m[NumBodies]}
ThresholdChoices ==
    {t \in [BodyIds -> Thresholds] :
        \A b \in BodyIds : t[b] = NoThreshold => b = NumBodies}

Init ==
    /\ \E m \in Movabilities, t \in ThresholdChoices, a \in BOOLEAN :
          bodies = [b \in BodyIds |-> NewBody(m[b], t[b], a)]
    /\ mix_factor \in 1 .. MaxMix
    /\ ufind = <<>>
    /\ can_deactivate = <<>>
    /\ to_activate = <<>>
    /\ contacts = [p \in Pairs |-> 0]
    /\ voted = bodies
    /\ consumed = <<>>
    /\ locks = NoLocks
    /\ joints = <<>>
    /\ body2joints = <<>>
    /\ joint_objs = [j \in JointIds |-> NewJoint]
    /\ lin_vel = [b \in BodyIds |-> 0]
    /\ pos = [b \in BodyIds |-> 0]
    /\ cache = NewCache
    /\ mj_lambda = <<>>
    /\ solved = NoSolve
    /\ correction = PositionCorrection
    /\ objects = <<>>
    /\ clamped = <<>>
    /\ cw = NoRequest
    /\ op = "new"

\* The scene is built before the first step.
SceneSetup == ufind = <<>>

\* The activation manager stepping a scene.
Next ==
    \/ ActivationUpdate
    \/ \E b \in BodyIds : WillActivate(b)
    \/ \E j \in JointIds : SceneSetup /\ add_ball_in_socket(j)
    \/ \E j \in JointIds : SceneSetup /\ add_fixed(j)

Spec == Init /\ [][Next]_vars

\* The joint manager under any sequence of edits.
NextJoints ==
    \/ \E b \in BodyIds : WillActivate(b)
    \/ \E j \in JointIds : add_ball_in_socket(j)
    \/ \E j \in JointIds : add_fixed(j)
    \/ \E j \in JointIds : remove_ball_in_socket(j)
    \/ \E j \in JointIds : remove_joint(j)
    \/ \E b \in BodyIds : remove(b)
    \/ \E j \in JointIds, v \in Locals : set_local1(j, v)
    \/ JointUpdate

SpecJoints == Init /\ [][NextJoints]_vars

\* The activation manager stepping a scene whose joints the user edits.
NextWake ==
    \/ ActivationUpdate
    \/ \E j \in JointIds : SceneSetup /\ add_fixed(j)
    \/ \E j \in JointIds, v \in Locals : set_local1(j, v)
    \/ JointUpdate

SpecWake == Init /\ [][NextWake]_vars

\* The scenes of the solver: any body may be static.
InitSolve ==
    /\ \E m \in [BodyIds -> BOOLEAN] :
          bodies = [b \in BodyIds |-> NewBody(m[b], MaxThreshold, TRUE)]
    /\ mix_factor = MaxMix
    /\ ufind = <<>>
    /\ can_deactivate = <<>>
    /\ to_activate = <<>>
    /\ contacts = [p \in Pairs |-> 0]
    /\ voted = bodies
    /\ consumed = <<>>
    /\ locks = NoLocks
    /\ joints = <<>>
    /\ body2joints = <<>>
    /\ joint_objs = [j \in JointIds |-> NewJoint]
    /\ lin_vel = [b \in BodyIds |-> 0]
    /\ pos = [b \in BodyIds |-> 0]
    /\ cache = NewCache
    /\ mj_lambda = <<>>
    /\ solved = NoSolve
    /\ correction = PositionCorrection
    /\ objects = <<>>
    /\ clamped = <<>>
    /\ cw = NoRequest
    /\ op = "new"

\* The solver alone, on any sequence of slices.
NextSolve == Solve

SpecSolve == InitSolve /\ [][NextSolve]_vars

\* The CCD pass on bodies that are registered, moved and unregistered.
NextCCD ==
    \/ \E b \in CCDIds, t \in 1 .. MaxMotionThreshold : add_ccd_to(b, t)
    \/ \E b \in CCDIds : remove_ccd_from(b)
    \/ \E b \in CCDIds, d \in (-MaxStep .. MaxStep) \ {0} : Move(b, d)
    \/ CCDUpdate

\* The scene of the CCD pass: every body is dynamic.
InitCCD == InitSolve /\ \A b \in BodyIds : bodies[b].can_move

SpecCCD == InitCCD /\ [][NextCCD]_vars

\* World::step, one pass at a time: the scene is built (a CCD registration,
\* then a joint), then each step moves the fast body forward and runs the
\* activation manager, the joint manager, the solver and the CCD pass in
\* this order.
BetweenSteps == op \in {"add_fixed", "ccd_update"}

\* In a step the dynamic bodies are all fast or all at rest.
StepVelocities ==
    {v \in SqVelocities : \A a, b \in BodyIds :
        (bodies[a].can_move /\ bodies[b].can_move) => v[a] = v[b]}

\* The slice the collector hands to the solver in a step: at most one
\* constraint, a shallow contact of a pair the collision world reported or
\* a joint of the joint table.
StepSlices ==
    {cs \in ConstraintSlices :
        /\ Len(cs) <= 1
        /\ \A i \in DOMAIN cs :
               IF cs[i].tag = "RBRB"
               THEN contacts[<<cs[i].b1, cs[i].b2>>] > 0 /\ cs[i].depth < MinDepth
               ELSE cs[i].joint \in DOMAIN joints}

\* In a step a fast body can only hit the body next to it, after it left.
StepImpacts ==
    {q \in TimesOfImpact :
        \A b \in DOMAIN objects, rb2 \in BodyIds :
            q[b][rb2] # NoToi => (rb2 = b + 1 /\ q[b][rb2] > 0)}

\* The scene of a step: the first and the last body are dynamic.
InitTick == InitSolve /\ bodies[1].can_move /\ bodies[NumBodies].can_move

NextTick ==
    \/ \E b \in CCDIds, t \in 1 .. MaxMotionThreshold : op = "new" /\ add_ccd_to(b, t)
    \/ \E j \in {1} : op = "add_ccd_to" /\ add_fixed(j)
    \/ \E b \in CCDIds, d \in 1 .. MaxStep : BetweenSteps /\ Move(b, d)
    \/ op = "move" /\ ActivationStep(StepVelocities)
    \/ op = "update" /\ JointUpdate
    \/ \E cs \in StepSlices : op = "joint_update" /\ SolveSlice(cs)
    \/ op = "solve" /\ CCDStep(StepImpacts)

SpecTick == InitTick /\ [][NextTick]_vars

\* RigidBody::delete: the world marks a body it removes.
delete(b) ==
    /\ bodies[b].state # "Deleted"
    /\ bodies' = [bodies EXCEPT ![b].state = "Deleted"]
    /\ op' = "delete"
    /\ UNCHANGED <<avars, hvars, jvars, joint_objs, kvars, svars, cvars>>

\* A slice of at most one shallow contact or joint.
ShortSlices ==
    {cs \in ConstraintSlices :
        Len(cs) <= 1 /\ \A i \in DOMAIN cs : cs[i].tag = "RBRB" => cs[i].depth < MinDepth}

\* The activation manager and the solver, in turn, on a world that deletes
\* bodies without taking them out of the body list; a panic ends the
\* program.
NextDeleted ==
    \/ \E b \in BodyIds : op \in {"new", "update", "solve"} /\ delete(b)
    \/ op \in {"new", "delete", "solve"} /\ ActivationStep(StepVelocities)
    \/ \E cs \in ShortSlices : op \in {"update", "delete"} /\ SolveSlice(cs)

SpecDeleted == InitTick /\ [][NextDeleted]_vars

\* ActivationManager::new: its assertion passes on the mix factor m / MixDen.
ActivationManager_new(m) == m >= 0

\* The mix factors a caller may pass: below 0, from 0 to 1, above 1.
MixFactors == -1 .. MixDen + 1

\* The state after a call of ActivationManager::new on a world of awake
\* bodies: the manager, or a panic.
InitNew ==
    /\ \E m \in [BodyIds -> BOOLEAN] :
          bodies = [b \in BodyIds |-> NewBody(m[b], MaxThreshold, TRUE)]
    /\ mix_factor \in MixFactors
    /\ ufind = <<>>
    /\ can_deactivate = <<>>
    /\ to_activate = <<>>
    /\ contacts = [p \in Pairs |-> 0]
    /\ voted = bodies
    /\ consumed = <<>>
    /\ locks = NoLocks
    /\ joints = <<>>
    /\ body2joints = <<>>
    /\ joint_objs = [j \in JointIds |-> NewJoint]
    /\ lin_vel = [b \in BodyIds |-> 0]
    /\ pos = [b \in BodyIds |-> 0]
    /\ cache = NewCache
    /\ mj_lambda = <<>>
    /\ solved = NoSolve
    /\ correction = PositionCorrection
    /\ objects = <<>>
    /\ clamped = <<>>
    /\ cw = NoRequest
    /\ op = IF ActivationManager_new(mix_factor) THEN "new" ELSE "panic"

\* The manager that new returned, stepped.
NextNew ==
    \/ op # "panic" /\ ActivationUpdate
    \/ \E b \in BodyIds : op # "panic" /\ WillActivate(b)

SpecNew == InitNew /\ [][NextNew]_vars

\* The pos_corr_factor() a correction mode may carry: Velocity gives 0, the
\* other modes the factor they were built with, of either sign.
PosCorrFactors == -1 .. 1

\* The solver built with any correction mode, on a world of dynamic bodies.
InitCorr ==
    /\ bodies = [b \in BodyIds |-> NewBody(TRUE, MaxThreshold, TRUE)]
    /\ mix_factor = MaxMix
    /\ ufind = <<>>
    /\ can_deactivate = <<>>
    /\ to_activate = <<>>
    /\ contacts = [p \in Pairs |-> 0]
    /\ voted = bodies
    /\ consumed = <<>>
    /\ locks = NoLocks
    /\ joints = <<>>
    /\ body2joints = <<>>
    /\ joint_objs = [j \in JointIds |-> NewJoint]
    /\ lin_vel = [b \in BodyIds |-> 0]
    /\ pos = [b \in BodyIds |-> 0]
    /\ cache = NewCache
    /\ mj_lambda = <<>>
    /\ solved = NoSolve
    /\ correction \in [pos_corr_factor : PosCorrFactors]
    /\ objects = <<>>
    /\ clamped = <<>>
    /\ cw = NoRequest
    /\ op = "new"

NextCorr == Solve

SpecCorr == InitCorr /\ [][NextCorr]_vars

\* A scene whose bodies fall asleep and wake while joints are added and
\* bodies are taken out of the joint manager.
NextRemove ==
    \/ ActivationStep(StepVelocities)
    \/ \E j \in JointIds : add_ball_in_socket(j)
    \/ \E j \in JointIds : add_fixed(j)
    \/ \E b \in BodyIds : remove(b)

SpecRemove == Init /\ [][NextRemove]_vars

(* ------------------------------ locks of the passes ------------------- *)
\* The objects behind an Arc<RWLock<_>>: the bodies and the joints.  The
\* joints of a list of constraints are told apart by their place in it.
Body(b) == <<"body", b>>
JointObj(i) == <<"joint", i>>

\* A guard of the given kind on the object x, alive while the requests inner are made.
Scoped(kind, x, inner) ==
    <<<<kind, x>>>> \o inner
        \o <<<<IF kind = "read" THEN "unread" ELSE "unwrite", x>>>>

\* An event is a pair: what is asked, and of which object.
Asked(e) == e[1]
ObjectOf(e) == e[2]

\* A write guard on body b lives for one iteration of its loop, or for one
\* statement: `let mut b = ....write()` is a local of the loop body and is
\* dropped at its end.
Guard(b) == Scoped("write", Body(b), <<>>)

RECURSIVE LoopGuards(_)
LoopGuards(q) == IF q = <<>> THEN <<>> ELSE Guard(Head(q)) \o LoopGuards(Tail(q))

\* A read guard that is taken and dropped with nothing in between.
ReadGuard(b) == Scoped("read", Body(b), <<>>)

RECURSIVE LoopReads(_)
LoopReads(q) == IF q = <<>> THEN <<>> ELSE ReadGuard(Head(q)) \o LoopReads(Tail(q))

\* for (i, b) in bodies.elements().iter().enumerate() and
\* for i in range(0u, self.ufind.len()), the forest having one entry a body.
AllBodies == [i \in 1 .. NumBodies |-> i]

\* The wake loop reading its bodies without a write guard.
WakeGuards_none(pending) == <<>>

\* for b in self.to_activate.iter() { let mut rb = b.write(); ... }
WakeGuards(pending) == LoopGuards(pending)

\* The write guards one update that runs to its end takes and drops, in
\* program order: energy loop, wake loop, commit loop.  The loops between
\* them only read.
WriteGuards(pending) ==
    LoopGuards(AllBodies) \o WakeGuards(pending) \o LoopGuards(AllBodies)

\* fn make_union: let rb1 = b1.read(); let rb2 = b2.read();
MakeUnionLocks(b1, b2) == Scoped("read", Body(b1), ReadGuard(b2))

\* A constraint of a traced scene: a contact names its bodies b1 and b2, a
\* joint the bodies a1 and a2 of its anchors (World for none).  The two
\* bodies may be the same one.
LockPool ==
    [tag : {"RBRB"}, b1 : BodyIds, b2 : BodyIds]
        \cup [tag : {"BallInSocket", "Fixed"},
              a1 : BodyIds \cup {World}, a2 : BodyIds \cup {World}]
LockJoints == {c \in LockPool : c.tag # "RBRB"}
LockScenes == UNION {[1 .. n -> LockPool] : n \in 0 .. MaxConstraints}
PendingLists == UNION {[1 .. n -> BodyIds] : n \in 0 .. MaxPending}

\* One edge of the island graph: a contact pair with collisions, or an
\* entry of the joint table, whose two anchor reads are temporaries of the
\* match that encloses make_union.
UnionLocks(c, i) ==
    IF c.tag = "RBRB" THEN MakeUnionLocks(c.b1, c.b2)
    ELSE Scoped("read", JointObj(i),
             Scoped("read", JointObj(i),
                 IF c.a1 # World /\ c.a2 # World
                 THEN MakeUnionLocks(c.a1, c.a2)
                 ELSE <<>>))

RECURSIVE UnionsLocks(_, _)
UnionsLocks(cs, i) ==
    IF i > Len(cs) THEN <<>> ELSE UnionLocks(cs[i], i) \o UnionsLocks(cs, i + 1)

\* ActivationManager::update: energy loop, wake loop, union-find, vote,
\* commit.
ActivationLocks(pending, cs) ==
    LoopGuards(AllBodies) \o WakeGuards(pending) \o UnionsLocks(cs, 1)
        \o LoopReads(AllBodies) \o LoopGuards(AllBodies)

\* ActivationManager::will_activate: b.read().can_move() && !b.read().is_active()
WillActivateLocks(b) ==
    IF b = World THEN <<>>
    ELSE Scoped("read", Body(b), IF bodies[b].can_move THEN ReadGuard(b) ELSE <<>>)

\* JointManager::update: the write guard on the joint is alive while the
\* bodies of a stale joint are scheduled.
RECURSIVE JointUpdateLocks(_, _, _)
JointUpdateLocks(cs, stale, i) ==
    IF i > Len(cs) THEN <<>>
    ELSE Scoped("write", JointObj(i),
             IF i \in stale
             THEN WillActivateLocks(cs[i].a1) \o WillActivateLocks(cs[i].a2)
             ELSE <<>>)
         \o JointUpdateLocks(cs, stale, i + 1)

\* The two index passes of solve: b.write().set_index(-2) and
\* set_body_index, under the read guard of the joint for its anchors.
IndexLocks(c, i) ==
    IF c.tag = "RBRB" THEN Guard(c.b1) \o Guard(c.b2)
    ELSE Scoped("read", JointObj(i),
             (IF c.a1 # World THEN Guard(c.a1) ELSE <<>>)
                 \o (IF c.a2 # World THEN Guard(c.a2) ELSE <<>>))

RECURSIVE IndexPassLocks(_, _)
IndexPassLocks(cs, i) ==
    IF i > Len(cs) THEN <<>> ELSE IndexLocks(cs[i], i) \o IndexPassLocks(cs, i + 1)

\* The fills of do_solve: rb1.read().deref(), rb2.read().deref() for the
\* contacts, then bis.read().deref() or f.read().deref() for the joints.
RECURSIVE ContactFillLocks(_, _)
ContactFillLocks(cs, i) ==
    IF i > Len(cs) THEN <<>>
    ELSE (IF cs[i].tag = "RBRB" THEN MakeUnionLocks(cs[i].b1, cs[i].b2) ELSE <<>>)
         \o ContactFillLocks(cs, i + 1)

RECURSIVE JointFillLocks(_, _)
JointFillLocks(cs, i) ==
    IF i > Len(cs) THEN <<>>
    ELSE (IF cs[i].tag # "RBRB" THEN Scoped("read", JointObj(i), <<>>) ELSE <<>>)
         \o JointFillLocks(cs, i + 1)

\* The bodies set_body_index pushes: the dynamic bodies of the slice, each
\* once, in the order the slice names them.
RECURSIVE PushedBodies(_, _, _)
PushedBodies(cs, i, acc) ==
    IF i > Len(cs) THEN acc
    ELSE LET c  == cs[i]
             bs == IF c.tag = "RBRB" THEN <<c.b1, c.b2>> ELSE <<c.a1, c.a2>>
             p1 == IF bs[1] # World /\ bodies[bs[1]].can_move
                      /\ \A k \in DOMAIN acc : acc[k] # bs[1]
                   THEN Append(acc, bs[1]) ELSE acc
             p2 == IF bs[2] # World /\ bodies[bs[2]].can_move
                      /\ \A k \in DOMAIN p1 : p1[k] # bs[2]
                   THEN Append(p1, bs[2]) ELSE p1
         IN  PushedBodies(cs, i + 1, p2)

\* Solver::solve: both index passes, the fills, the velocity pass and, when
\* a correction is needed, the position pass.
SolveLocks(cs, needs) ==
    IF cs = <<>> THEN <<>>
    ELSE IndexPassLocks(cs, 1) \o IndexPassLocks(cs, 1)
         \o ContactFillLocks(cs, 1) \o JointFillLocks(cs, 1)
         \o LoopGuards(PushedBodies(cs, 1, <<>>))
         \o (IF needs THEN LoopGuards(PushedBodies(cs, 1, <<>>)) ELSE <<>>)

\* The callback of interferences_with_aabb: let brb2 = rb2.read().
RECURSIVE SeenLocks(_, _)
SeenLocks(b, seen) ==
    IF seen = <<>> THEN <<>>
    ELSE (IF Head(seen) # b THEN ReadGuard(Head(seen)) ELSE <<>>)
         \o SeenLocks(b, Tail(seen))

\* The loop body of the CCD update without drop(brb1).
ClampLocks_no_drop(b, c) ==
    Scoped("read", Body(b),
        IF c.over
        THEN SeenLocks(b, c.seen) \o (IF c.found THEN Guard(b) ELSE <<>>)
             \o ReadGuard(b) \o ReadGuard(b)
        ELSE ReadGuard(b))

\* The loop body of the CCD update for the body b: brb1 is read-locked at
\* the top and dropped before the rewind when the body is over its threshold,
\* at the end of the iteration otherwise.
ClampLocks(b, c) ==
    IF c.over
    THEN Scoped("read", Body(b), SeenLocks(b, c.seen))
         \o (IF c.found THEN Guard(b) ELSE <<>>)
         \o ReadGuard(b) \o ReadGuard(b)
    ELSE Scoped("read", Body(b), ReadGuard(b))

\* What one body of the CCD update meets: whether it is over its threshold,
\* the bodies the collision world lists in its swept box, in order, and
\* whether one of them gave a time of impact.
ClampScenes ==
    {c \in [over : BOOLEAN, found : BOOLEAN,
            seen : UNION {Orders(S) : S \in SUBSET BodyIds}] :
        /\ c.found => c.over
        /\ ~c.over => c.seen = <<>>}

RECURSIVE CCDLocks(_, _)
CCDLocks(q, D) ==
    IF D = {} THEN <<>>
    ELSE LET b == CHOOSE x \in D : \A y \in D : x <= y
         IN  ClampLocks(b, q[b]) \o CCDLocks(q, D \ {b})

\* A pass leaves the trace of its lock requests; nothing else is looked at.
Traced(pass, given, events) ==
    /\ locks' = [pass |-> pass, given |-> given, events |-> events]
    /\ op' = "locks"
    /\ UNCHANGED <<bodies, avars, contacts, voted, consumed, jvars, joint_objs,
                   kvars, svars, cvars>>

\* Each pass is traced on a fresh scene.
TracedActivationUpdate ==
    /\ locks = NoLocks
    /\ \E pending \in PendingLists, cs \in LockScenes :
        Traced("update", [pending |-> pending, constraints |-> cs],
               ActivationLocks(pending, cs))

TracedJointUpdate ==
    /\ locks = NoLocks
    /\ \E cs \in UNION {[1 .. n -> LockJoints] : n \in 0 .. MaxConstraints} :
        \E stale \in SUBSET DOMAIN cs :
            Traced("joint_update", [constraints |-> cs, stale |-> stale],
                   JointUpdateLocks(cs, stale, 1))

TracedSolve ==
    /\ locks = NoLocks
    /\ \E cs \in LockScenes, needs \in BOOLEAN :
        Traced("solve", [constraints |-> cs, needs_correction |-> needs],
               SolveLocks(cs, needs))

TracedCCDUpdate ==
    /\ locks = NoLocks
    /\ \E D \in SUBSET CCDIds :
        \E q \in [D -> ClampScenes] :
            Traced("ccd_update", [objects |-> q], CCDLocks(q, D))

\* The passes of a step on any scene, each seen through its lock requests.
NextLocks ==
    \/ TracedActivationUpdate
    \/ TracedJointUpdate
    \/ TracedSolve
    \/ TracedCCDUpdate

InitLocks ==
    /\ Init
    /\ mix_factor = 1
    /\ \A b \in BodyIds : is_active(bodies[b]) /\ bodies[b].threshold = 1

SpecLocks == InitLocks /\ [][NextLocks]_vars

(* ------------------------------ islands, from the graph --------------- *)
Range(q) == {q[i] : i \in DOMAIN q}

\* A contact pair of a and b with at least one contact.
Touching(a, b) ==
    \E p \in Pairs : {p[1], p[2]} = {a, b} /\ contacts[p] > 0

\* A joint of the table whose two anchors are the bodies a and b.
Jointed(a, b) ==
    \E j \in DOMAIN joints :
        /\ joints[j].tag \in {"BallInSocket", "Fixed"}
        /\ anchor1(j) # World /\ anchor2(j) # World
        /\ {anchor1(j), anchor2(j)} = {a, b}

Edge(a, b) ==
    /\ bodies[a].can_move /\ bodies[b].can_move
    /\ Touching(a, b) \/ Jointed(a, b)

RECURSIVE Grow(_)
Grow(S) ==
    Strict(LAMBDA T : IF T = S THEN S ELSE Grow(T),
        S \cup {b \in BodyIds : \E a \in S : Edge(a, b)})

\* The connected component of body a.
Island(a) == Grow({a})

HasThreshold(b) == b.threshold # NoThreshold

\* Body b, as the vote saw it, keeps its island awake.
Hot(b) == ~HasThreshold(voted[b]) \/ energy(voted[b]) >= voted[b].threshold

(* ------------------------------ claims -------------------------------- *)
\* C1: after every ActivationManager.update, every Active body that has a
\* deactivation threshold t has an energy of at most 4 * t.
C1_EnergyClamped ==
    op = "update" =>
        \A b \in BodyIds :
            (bodies[b].state = "Active" /\ HasThreshold(bodies[b]))
                => bodies[b].energy <= 4 * bodies[b].threshold

\* An update has just clamped the energy of a body to 4 * t.
C1_Witness ==
    /\ op = "update"
    /\ \E b \in BodyIds :
          /\ bodies[b].state = "Active" /\ HasThreshold(bodies[b])
          /\ bodies[b].energy = 4 * bodies[b].threshold

\* C2: when an island has a member without threshold or with a vote-time
\* energy >= its threshold, update leaves every movable member that has a
\* threshold Active, and a member that was Inactive before the update is
\* Active with energy 2 * threshold.
C2_HotIslandAwake ==
    [][op' = "update" =>
         \A b \in BodyIds :
             (/\ bodies'[b].can_move /\ HasThreshold(bodies'[b])
              /\ \E h \in Island(b)' : Hot(h)')
             => /\ bodies'[b].state = "Active"
                /\ bodies[b].state = "Inactive"
                     => bodies'[b].energy = 2 * bodies'[b].threshold]_vars

\* An update has just woken a sleeping body because another member of its
\* island was above its threshold.
C2_Witness ==
    /\ op = "update"
    /\ \E b \in BodyIds, h \in BodyIds :
          /\ h # b /\ h \in Island(b) /\ Hot(h) /\ voted[h].state = "Active"
          /\ b \notin Range(consumed)
          /\ voted[b].state = "Inactive" /\ bodies[b].can_move
          /\ bodies[b].state = "Active"
          /\ bodies[b].energy = 2 * bodies[b].threshold

\* Every member of the island of b has a threshold and, at vote time, an
\* energy strictly below it.
AllLow(b) == \A m \in Island(b) : ~Hot(m)

\* C3: update deactivates a body if and only if every body of its island
\* has a threshold and a vote-time energy strictly below it: the bodies of
\* such an island all end Inactive, and no body of another island goes
\* from Active to Inactive.
C3_DeactivateIffAllLow ==
    op = "update" =>
        \A b \in BodyIds :
            /\ AllLow(b) => bodies[b].state = "Inactive"
            /\ (~AllLow(b) /\ bodies[b].state = "Inactive")
                   => voted[b].state = "Inactive"

\* An update has just put to sleep an island of two awake bodies.
C3_Witness ==
    /\ op = "update"
    /\ \E a \in BodyIds, b \in BodyIds :
          /\ a # b /\ a \in Island(b) /\ AllLow(b)
          /\ voted[a].state = "Active" /\ voted[b].state = "Active"
          /\ bodies[a].state = "Inactive" /\ bodies[b].state = "Inactive"

\* C4: after update two bodies have the same union-find root exactly when
\* they are connected in the graph whose edges join two movable bodies that
\* touch or are the two anchor bodies of a joint.
C4_IslandsAreComponents ==
    op = "update" =>
        \A a \in BodyIds, b \in BodyIds :
            (root(a - 1, ufind) = root(b - 1, ufind)) <=> (b \in Island(a))

\* A sleeping body and a hot body both touch a static body, which is also
\* jointed to the hot body, itself jointed to the world: the sleeping body
\* is in its own island and stays asleep.
C4_Witness ==
    /\ op = "update"
    /\ \E a \in BodyIds, st \in BodyIds, h \in BodyIds :
          /\ ~bodies[st].can_move /\ bodies[a].can_move /\ bodies[h].can_move
          /\ Touching(a, st) /\ Touching(st, h) /\ Jointed(st, h)
          /\ \E j \in DOMAIN joints : anchor1(j) = World /\ anchor2(j) = h
          /\ Hot(h) /\ bodies[a].state = "Inactive"
          /\ root(a - 1, ufind) # root(h - 1, ufind)

\* C5: update never changes a body without threshold from Active to
\* Inactive.
C5_NoThresholdNeverSleeps ==
    [][op' = "update" =>
         \A b \in BodyIds :
             (~HasThreshold(bodies[b]) /\ bodies[b].state = "Active")
                 => bodies'[b].state = "Active"]_vars

\* A body without threshold is awake after an update although the other
\* bodies of its island were all below their thresholds.
C5_Witness ==
    /\ op = "update"
    /\ \E b \in BodyIds :
          /\ ~HasThreshold(bodies[b]) /\ bodies[b].state = "Active"
          /\ Island(b) # {b}
          /\ \A m \in Island(b) \ {b} : ~Hot(m)

\* C6: after the commit of update every Inactive body is immovable, or has
\* a threshold and had a vote-time energy strictly below it.
C6_InactiveIsImmovableOrLow ==
    op = "update" =>
        \A b \in BodyIds :
            bodies[b].state = "Inactive"
                => \/ ~bodies[b].can_move
                   \/ /\ HasThreshold(bodies[b])
                      /\ energy(voted[b]) < bodies[b].threshold

\* C7: a movable, Inactive body with a threshold t > 0 that is in the
\* pending list is Active after the next update; that update empties the
\* list, so an update that directly follows it consumes no wake-up.
C7_PendingWoken ==
    [][/\ op' = "update" =>
            /\ to_activate' = <<>>
            /\ \A b \in Range(to_activate) :
                   (/\ bodies[b].can_move
                    /\ bodies[b].state = "Inactive"
                    /\ bodies[b].threshold > 0)
                   => bodies'[b].state = "Active"
       /\ (op = "update" /\ op' = "update") => consumed' = <<>>]_vars

\* An update has just woken a pending body whose island was otherwise
\* below its thresholds.
C7_Witness ==
    /\ op = "update"
    /\ \E b \in Range(consumed) :
          /\ bodies[b].threshold > 0 /\ bodies[b].state = "Active"
          /\ Island(b) # {b}
          /\ \A m \in Island(b) \ {b} : ~Hot(m)

\* C8: a will_activate call leaves the bodies alone and either leaves the
\* pending list alone or appends a body that is movable and Inactive: on an
\* Active or immovable body it changes nothing, and the list only ever holds
\* movable Inactive bodies.
C8_WillActivateNoop ==
    [][/\ op' = "will_activate" =>
            /\ bodies' = bodies
            /\ \/ to_activate' = to_activate
               \/ \E b \in BodyIds :
                      /\ to_activate' = Append(to_activate, b)
                      /\ bodies[b].can_move /\ bodies[b].state = "Inactive"
       /\ \A b \in Range(to_activate') :
              bodies[b].can_move /\ bodies[b].state = "Inactive"]_vars

\* A will_activate call on a body that is awake, made after an update, has
\* left the pending list empty.
C8_Witness ==
    /\ op = "will_activate"
    /\ ufind # <<>>
    /\ to_activate = <<>>
    /\ \E b \in BodyIds : bodies[b].state = "Active"

\* The reverse list of body b, empty when the index has no entry for b.
ListOf(b2j, b) == IF b \in DOMAIN b2j THEN b2j[b] ELSE <<>>

\* The bodies of the anchors of joint j that will_activate accepts.
Schedulable(j) ==
    SelectSeq(<<anchor1(j), anchor2(j)>>,
              LAMBDA b : b # World /\ bodies[b].can_move
                         /\ bodies[b].state = "Inactive")

\* What an add of joint j, stored as entry c, does to the joint manager.
AddedRight(j, c) ==
    /\ DOMAIN joints' = DOMAIN joints \cup {j}
    /\ joints'[j] = c
    /\ \A k \in DOMAIN joints \ {j} : joints'[k] = joints[k]
    /\ IF j \in DOMAIN joints
       THEN /\ joints' = joints
            /\ body2joints' = body2joints
            /\ to_activate' = to_activate
       ELSE /\ DOMAIN body2joints' =
                   DOMAIN body2joints \cup ({anchor1(j), anchor2(j)} \ {World})
            /\ \A b \in BodyIds :
                   ListOf(body2joints', b) =
                       ListOf(body2joints, b)
                           \o (IF anchor1(j) = b THEN <<c>> ELSE <<>>)
                           \o (IF anchor2(j) = b THEN <<c>> ELSE <<>>)
            /\ to_activate' = to_activate \o Schedulable(j)

\* C9: add_ball_in_socket and add_fixed insert the joint under its identity
\* and, only when it was not in the table, append it to the reverse list of
\* each anchor body and schedule that body; adding a joint that is in the
\* table changes neither table, reverse index nor pending list.
C9_AddJoint ==
    [][/\ op' = "add_ball_in_socket" =>
            \E j \in JointIds :
                JointKind(j) = "BallInSocket"
                    /\ AddedRight(j, [tag |-> "BallInSocket", joint |-> j])
       /\ op' = "add_fixed" =>
            \E j \in JointIds :
                JointKind(j) = "Fixed"
                    /\ AddedRight(j, [tag |-> "Fixed", joint |-> j])]_vars

\* A fixed joint between two sleeping bodies has just been added: it is in
\* the table and in both reverse lists, and both bodies are scheduled.
C9_Witness ==
    /\ op = "add_fixed"
    /\ \E j \in DOMAIN joints :
          /\ joints[j].tag = "Fixed"
          /\ anchor1(j) # World /\ anchor2(j) # World
          /\ joints[j] \in Range(ListOf(body2joints, anchor1(j)))
          /\ joints[j] \in Range(ListOf(body2joints, anchor2(j)))
          /\ to_activate = <<anchor1(j), anchor2(j)>>

\* C10: when the add of a joint is directly followed by its removal, no
\* reverse list contains the removed joint any more.  The table held the
\* added joint alone, so the removal takes out the joint the add was for.
C10_AddRemoveLeavesNoEntry ==
    [][(/\ op \in {"add_ball_in_socket", "add_fixed"}
        /\ op' \in {"remove_ball_in_socket", "remove_joint"})
       => \A j \in JointIds :
              (DOMAIN joints = {j} /\ DOMAIN joints' = {})
                  => \A b \in BodyIds :
                         \A i \in DOMAIN ListOf(body2joints', b) :
                             ListOf(body2joints', b)[i].joint # j]_vars

\* C11: after remove(b) no joint of the table has an anchor on b, and the
\* reverse index has no entry for b.  (b is the body whose reverse list the
\* call took out of the index.)
C11_RemoveBodyClearsTable ==
    [][op' = "remove" =>
         \A b \in BodyIds :
             (b \in DOMAIN body2joints /\ b \notin DOMAIN body2joints')
                 => \A j \in DOMAIN joints' : anchor1(j) # b /\ anchor2(j) # b]_vars

\* Every joint of the table is up to date.
AllUpToDate == \A j \in DOMAIN joints : joint_objs[j].up_to_date

\* C12: after JointManager.update every joint of the table is up to date;
\* an update that finds every joint of the table up to date schedules no
\* body and changes no joint; and only an edit of a joint or the add of a
\* joint makes a joint of the table stale again.
C12_JointUpdateIdempotent ==
    [][/\ op' = "joint_update" =>
            \A j \in DOMAIN joints' : joint_objs'[j].up_to_date
       /\ (op' = "joint_update" /\ AllUpToDate) =>
            /\ to_activate' = to_activate
            /\ joint_objs' = joint_objs
            /\ joints' = joints
       /\ (AllUpToDate /\ op' \notin {"set_local1", "add_fixed", "add_ball_in_socket"})
            => AllUpToDate']_vars

\* A joint update has run over a table whose fixed joint is up to date and
\* links two sleeping bodies, and the pending list is empty: the update
\* scheduled nothing.
C12_Witness ==
    /\ op = "joint_update"
    /\ to_activate = <<>>
    /\ \E j \in DOMAIN joints :
          /\ joint_objs[j].up_to_date
          /\ anchor1(j) # World /\ anchor2(j) # World
          /\ bodies[anchor1(j)].can_move /\ bodies[anchor1(j)].state = "Inactive"
          /\ bodies[anchor2(j)].can_move /\ bodies[anchor2(j)].state = "Inactive"

\* Joint j is a fixed joint of the table between two sleeping movable bodies
\* and the user gave its first anchor a new position (set_local1 with a new
\* value) that no joint update has seen yet.
EditedAsleep(j) ==
    /\ j \in DOMAIN joints /\ joints[j].tag = "Fixed"
    /\ ~joint_objs[j].up_to_date
    /\ joint_objs[j].local1 # NewJoint.local1
    /\ anchor1(j) # World /\ anchor2(j) # World
    /\ \A b \in {anchor1(j), anchor2(j)} :
           bodies[b].can_move /\ bodies[b].state = "Inactive"

\* C13, as stated: after the JointManager.update that follows set_local1 the
\* two bodies of the joint are Active.
C13_ActiveAfterJointUpdate ==
    [][op' = "joint_update" =>
         \A j \in JointIds :
             EditedAsleep(j) =>
                 /\ bodies'[anchor1(j)].state = "Active"
                 /\ bodies'[anchor2(j)].state = "Active"]_vars

\* C13, amended: the JointManager.update that follows set_local1 leaves the
\* two bodies as they are and puts both in the pending list; the
\* ActivationManager.update that finds the two sleeping bodies of a fixed
\* joint in the pending list leaves each one that has a threshold Active.
C13_ScheduledThenWoken ==
    [][/\ op' = "joint_update" =>
            \A j \in JointIds :
                EditedAsleep(j) =>
                    /\ bodies' = bodies
                    /\ joint_objs'[j].up_to_date
                    /\ {anchor1(j), anchor2(j)} \subseteq Range(to_activate')
       /\ op' = "update" =>
            \A j \in DOMAIN joints :
                (/\ joints[j].tag = "Fixed"
                 /\ anchor1(j) # World /\ anchor2(j) # World
                 /\ {anchor1(j), anchor2(j)} \subseteq Range(to_activate))
                => \A b \in {anchor1(j), anchor2(j)} :
                       (bodies[b].can_move /\ bodies[b].state = "Inactive"
                            /\ HasThreshold(bodies[b]))
                       => bodies'[b].state = "Active"]_vars

\* An activation update has consumed the wake-ups of the two bodies of an
\* edited fixed joint, which no contact touches, and both are awake.
C13_Witness ==
    /\ op = "update"
    /\ \E j \in DOMAIN joints :
          /\ joints[j].tag = "Fixed"
          /\ joint_objs[j].up_to_date
          /\ joint_objs[j].local1 # NewJoint.local1
          /\ consumed = <<anchor1(j), anchor2(j)>>
          /\ ufind # <<>>
          /\ \A p \in Pairs : contacts[p] = 0
          /\ \A b \in {anchor1(j), anchor2(j)} :
                 /\ voted[b].state = "Active" /\ voted[b].energy = 2 * voted[b].threshold
                 /\ bodies[b].state = "Active"

\* The bodies the constraints of the slice cs mention.
Referenced(cs) ==
    UNION {{Mentions(cs[i])[k] : k \in DOMAIN Mentions(cs[i])} : i \in DOMAIN cs}

\* The number of times phase ph occurs in the log of the last solve.
Times(log, ph) == Cardinality({i \in DOMAIN log : log[i] = ph})

\* C14: solve on an empty slice changes no body, no velocity, no transform
\* and not the cache (no insertion, no swap); solve on a non-empty slice
\* swaps the cache exactly once and last, after the write-back and the
\* position pass, so that the entries and slots of this solve end in the
\* previous region and the current region is empty.
C14_EmptySliceNoop ==
    [][op' = "solve" =>
         IF solved'.constraints = <<>>
         THEN /\ bodies' = bodies /\ lin_vel' = lin_vel /\ pos' = pos
              /\ cache' = cache /\ mj_lambda' = mj_lambda
              /\ solved'.log = <<>>
         ELSE /\ Times(solved'.log, "swap") = 1
              /\ solved'.log[Len(solved'.log)] = "swap"
              /\ \E i \in DOMAIN solved'.log : solved'.log[i] = "write_back"
              /\ cache'.hash_next = <<>> /\ cache'.cache_next = <<>>
              /\ Len(cache'.hash_prev) =
                     Cardinality({i \in DOMAIN solved'.constraints :
                                     solved'.constraints[i].tag = "RBRB"})
              /\ Len(cache'.cache_prev) = Len(cache'.hash_prev)]_vars

\* solve has just been given an empty slice while the cache held the
\* contacts of an earlier solve, which are still there.
C14_Witness ==
    /\ op = "solve"
    /\ solved.constraints = <<>>
    /\ cache.hash_prev # <<>>
    /\ \E b \in BodyIds : lin_vel[b] > 0

\* C15: after solve on a non-empty slice every movable body a constraint
\* mentions has an index in [0, N), N the length of the dense list; these
\* indices are pairwise distinct; the dense list holds exactly those bodies,
\* the body at place i having index i; every immovable body a constraint
\* mentions has index -1.
C15_DenseIndices ==
    [][(op' = "solve" /\ solved'.constraints # <<>>) =>
         LET ref == Referenced(solved'.constraints)
             bl  == solved'.blist
         IN  /\ \A b \in ref :
                    IF bodies'[b].can_move
                    THEN bodies'[b].index \in 0 .. Len(bl) - 1
                    ELSE bodies'[b].index = -1
             /\ \A a, b \in ref :
                    (a # b /\ bodies'[a].can_move /\ bodies'[b].can_move)
                        => bodies'[a].index # bodies'[b].index
             /\ {bl[k] : k \in DOMAIN bl} = {b \in ref : bodies'[b].can_move}
             /\ \A k \in DOMAIN bl : bodies'[bl[k]].index = k - 1]_vars

\* solve has indexed a slice whose two constraints mention the same movable
\* body and that also mentions an immovable body.
C15_Witness ==
    /\ op = "solve"
    /\ Len(solved.constraints) = 2
    /\ \E b \in BodyIds :
          /\ bodies[b].can_move
          /\ \A i \in DOMAIN solved.constraints : b \in Referenced(<<solved.constraints[i]>>)
    /\ \E b \in Referenced(solved.constraints) : ~bodies[b].can_move
    /\ Len(solved.blist) = 2

\* The points between the passes of a step.
BetweenPasses == op \in {"update", "joint_update", "solve", "ccd_update"}

\* C16, as stated: between the passes of a step the index of every body,
\* immovable or not, referenced by a constraint or not, is -1 or a slot
\* of mj_lambda.
C16_IndexMinusOneOrDense ==
    BetweenPasses =>
        \A b \in BodyIds :
            bodies[b].index = -1 \/ bodies[b].index \in 0 .. Len(mj_lambda) - 1

\* C16, amended: the activation update gives every body, movable or not,
\* its place in the body list as index; solve on a non-empty slice gives
\* every body the slice mentions -1 if it is immovable and a slot of
\* mj_lambda if it is movable, and leaves the index of every other body as
\* it was; the joint update, the CCD update and solve on an empty slice
\* leave every index as it was.
C16_IndexAfterPasses ==
    [][/\ op' = "update" => \A b \in BodyIds : bodies'[b].index = b - 1
       /\ (op' = "solve" /\ solved'.constraints # <<>>) =>
              \A b \in BodyIds :
                  IF b \in Referenced(solved'.constraints)
                  THEN IF bodies[b].can_move
                       THEN bodies'[b].index \in 0 .. Len(mj_lambda') - 1
                       ELSE bodies'[b].index = -1
                  ELSE bodies'[b].index = bodies[b].index
       /\ (\/ op' \in {"joint_update", "ccd_update"}
           \/ (op' = "solve" /\ solved'.constraints = <<>>)) =>
              \A b \in BodyIds : bodies'[b].index = bodies[b].index]_vars

\* After the activation update, solve has indexed a slice that mentions an
\* immovable body and leaves out a body whose index, its place in the body
\* list, is beyond mj_lambda.
C16_Witness ==
    /\ op = "solve"
    /\ solved.constraints # <<>>
    /\ \E a \in BodyIds \ Referenced(solved.constraints) :
          bodies[a].index = a - 1 /\ bodies[a].index >= Len(mj_lambda)
    /\ \E b \in Referenced(solved.constraints) :
          ~bodies[b].can_move /\ bodies[b].index = -1

\* C17: solve writes neither the velocity nor the transform of an immovable
\* body; a contact between two immovable bodies is nevertheless inserted in
\* the cache and has its impulse slot written back.
C17_ImmovableUntouched ==
    [][op' = "solve" =>
         /\ \A b \in BodyIds :
                ~bodies[b].can_move => (lin_vel'[b] = lin_vel[b] /\ pos'[b] = pos[b])
         /\ \A i \in DOMAIN solved'.constraints :
                LET c == solved'.constraints[i]
                IN  (/\ c.tag = "RBRB"
                     /\ ~bodies[c.b1].can_move /\ ~bodies[c.b2].can_move)
                    => \E k \in DOMAIN cache'.hash_prev :
                           /\ cache'.hash_prev[k].ci = i
                           /\ cache'.hash_prev[k].key = <<c.b1, c.b2>>
                           /\ cache'.hash_prev[k].imp \in DOMAIN cache'.cache_prev]_vars

\* solve has handled a slice with a contact between two immovable bodies
\* and a constraint on a movable body, whose velocity it changed.
C17_Witness ==
    /\ op = "solve"
    /\ \E i \in DOMAIN solved.constraints :
          /\ solved.constraints[i].tag = "RBRB"
          /\ ~bodies[solved.constraints[i].b1].can_move
          /\ ~bodies[solved.constraints[i].b2].can_move
    /\ \E k \in DOMAIN solved.blist : lin_vel[solved.blist[k]] > 0
    /\ Len(cache.cache_prev) >= 1

Abs(x) == IF x < 0 THEN -x ELSE x

\* The last CCD update found a time of impact for the registered body b:
\* b had moved more than its threshold and another body answered the query
\* with a time within the motion.
ToiFound(b) ==
    /\ b \in DOMAIN objects
    /\ (pos[b] - objects[b].last_pos) * (pos[b] - objects[b].last_pos)
           > objects[b].sqthreshold
    /\ \E rb2 \in BodyIds \ {b} :
           clamped'[b].tois[rb2] # NoToi /\ clamped'[b].tois[rb2] <= TOIDen

\* The smallest accepted time of impact of b over the other bodies, the end
\* of the motion when none is accepted: a time of 0 is accepted only when
\* accept_zero was set.
MinAccepted(b) ==
    LET acc == {t \in 0 .. TOIDen :
                   /\ \E rb2 \in BodyIds \ {b} : clamped'[b].tois[rb2] = t
                   /\ (t > 0 \/ objects[b].accept_zero)}
    IN  IF acc = {} THEN TOIDen ELSE CHOOSE t \in acc : \A u \in acc : t <= u

\* solve was given, or is given in this step, an empty slice.
EmptySolve == op' = "solve" /\ solved'.constraints = <<>>
AfterEmptySolve == op' = "ccd_update" /\ solved.constraints = <<>>

C19_WithinThreshold ==
    [][op' = "ccd_update" =>
         \A b \in BodyIds :
             ToiFound(b) =>
                 (pos'[b] - objects[b].last_pos) * (pos'[b] - objects[b].last_pos)
                     <= objects[b].sqthreshold]_vars

\* C19, amended: when a CCD update finds a time of impact for b, the
\* distance of b from the last_pos recorded before the update is min_toi
\* times the distance b had moved, hence at most that distance.
C19_WithinMovement ==
    [][op' = "ccd_update" =>
         \A b \in BodyIds :
             ToiFound(b) =>
                 /\ Abs(pos'[b] - objects[b].last_pos) * TOIDen
                        = Abs(pos[b] - objects[b].last_pos) * MinAccepted(b)
                 /\ Abs(pos'[b] - objects[b].last_pos)
                        <= Abs(pos[b] - objects[b].last_pos)]_vars

\* A CCD update has rewound a body to a point further from its previous
\* last_pos than its motion threshold.
C19_Witness ==
    /\ op = "ccd_update"
    /\ \E b \in DOMAIN objects :
          /\ b \in DOMAIN clamped
          /\ clamped[b].used /\ clamped[b].toi_found
          /\ clamped[b].min_toi \in 1 .. TOIDen - 1
          /\ (pos[b] - clamped[b].last_pos) * (pos[b] - clamped[b].last_pos)
                 > objects[b].sqthreshold

\* C20: when a registered body b moved more than its threshold and a time
\* of impact was found, the CCD update puts b at last_pos + movement *
\* min_toi, min_toi the smallest accepted time over the bodies other than b
\* (the end of the motion when none is accepted); b ends between last_pos
\* and where it was, and no velocity changes.
C20_RewindToImpact ==
    [][op' = "ccd_update" =>
         /\ lin_vel' = lin_vel
         /\ \A b \in BodyIds :
                ToiFound(b) =>
                    LET last     == objects[b].last_pos
                        movement == pos[b] - objects[b].last_pos
                    IN  /\ pos'[b] * TOIDen = last * TOIDen + movement * MinAccepted(b)
                        /\ \/ last <= pos'[b] /\ pos'[b] <= pos[b]
                           \/ pos[b] <= pos'[b] /\ pos'[b] <= last]_vars

\* A CCD update has taken the smaller of two accepted times, or has refused
\* a time of 0 and taken a later one, and the body stands strictly between
\* its previous last_pos and the end of its motion.
C20_Witness ==
    /\ op = "ccd_update"
    /\ \E b \in DOMAIN objects :
          /\ b \in DOMAIN clamped
          /\ clamped[b].used /\ clamped[b].toi_found
          /\ clamped[b].tois[b] = 0
          /\ \E x, y \in BodyIds \ {b} :
                 /\ x # y
                 /\ clamped[b].tois[x] = clamped[b].min_toi
                 /\ clamped[b].tois[y] # NoToi
                 /\ clamped[b].tois[y] # clamped[b].min_toi
                 /\ clamped[b].tois[y] <= TOIDen
          /\ clamped[b].min_toi \in 1 .. TOIDen - 1
          /\ pos[b] # clamped[b].last_pos
\* The registered body b has moved more than its threshold since last_pos.
OverThreshold(b) ==
    (pos[b] - objects[b].last_pos) * (pos[b] - objects[b].last_pos)
        > objects[b].sqthreshold

\* The smallest time above 0 that another body answered within the motion
\* of b in this CCD update, the end of the motion when there is none.
MinPositive(b) ==
    LET acc == {t \in 1 .. TOIDen : \E rb2 \in BodyIds \ {b} : clamped'[b].tois[rb2] = t}
    IN  IF acc = {} THEN TOIDen ELSE CHOOSE t \in acc : \A u \in acc : t <= u

\* C21: a time of impact of 0 lowers min_toi only when accept_zero is set:
\* with accept_zero false the body is rewound to the smallest time above 0
\* (not at all when there is none), with accept_zero true a time of 0 sends
\* it back to last_pos; an update in which b is over its threshold sets
\* accept_zero to false when it finds a time of impact and to true when it
\* finds none, and an update in which b stays within its threshold leaves
\* accept_zero as it was.
C21_ZeroNeedsAcceptZero ==
    [][op' = "ccd_update" =>
         \A b \in DOMAIN objects :
             /\ (ToiFound(b) /\ ~objects[b].accept_zero) =>
                    /\ clamped'[b].min_toi = MinPositive(b)
                    /\ pos'[b] * TOIDen = objects[b].last_pos * TOIDen
                           + (pos[b] - objects[b].last_pos) * MinPositive(b)
             /\ (/\ ToiFound(b) /\ objects[b].accept_zero
                 /\ \E rb2 \in BodyIds \ {b} : clamped'[b].tois[rb2] = 0) =>
                    pos'[b] = objects[b].last_pos
             /\ objects'[b].accept_zero =
                    IF OverThreshold(b) THEN ~ToiFound(b) ELSE objects[b].accept_zero]_vars

\* A CCD update has found only a time of 0 for a body over its threshold
\* and has refused it: the body stays where its motion ended.
C21_Witness ==
    /\ op = "ccd_update"
    /\ \E b \in DOMAIN objects :
          /\ b \in DOMAIN clamped
          /\ clamped[b].used /\ clamped[b].toi_found
          /\ \E rb2 \in BodyIds \ {b} : clamped[b].tois[rb2] = 0
          /\ \A rb2 \in BodyIds \ {b} : clamped[b].tois[rb2] \in {NoToi, 0}
          /\ clamped[b].min_toi = TOIDen
          /\ pos[b] # clamped[b].last_pos
          /\ ~objects[b].accept_zero

\* C22: a CCD update calls set_next_position for a registered body exactly
\* when it found a time of impact for that body, and calls the collision
\* world's update exactly when it found one for some body; bodies over
\* their threshold without a time of impact cause neither.
C22_RefreshIffRepositioned ==
    [][op' = "ccd_update" =>
         /\ \A b \in DOMAIN objects :
                (b \in DOMAIN cw'.next_position) <=> ToiFound(b)
         /\ cw'.updated <=> (\E b \in DOMAIN objects : ToiFound(b))]_vars

\* C28: a CCD update leaves a registered body that is not over its
\* threshold where it is, with its accept_zero, and does not call
\* set_next_position for it; after the update last_pos of every registered
\* body is the translation the body then has.
C28_WithinThresholdUntouched ==
    [][op' = "ccd_update" =>
         \A b \in DOMAIN objects :
             /\ ~OverThreshold(b) =>
                    /\ pos'[b] = pos[b]
                    /\ objects'[b].accept_zero = objects[b].accept_zero
                    /\ b \notin DOMAIN cw'.next_position
             /\ objects'[b].last_pos = pos'[b]
             /\ objects'[b].sqthreshold = objects[b].sqthreshold]_vars

\* A CCD update has passed over a body that had moved, but not beyond its
\* threshold, and whose accept_zero an earlier update had cleared.
C28_Witness ==
    /\ op = "ccd_update"
    /\ \E b \in DOMAIN objects :
          /\ b \in DOMAIN clamped
          /\ ~clamped[b].used
          /\ pos[b] # clamped[b].last_pos
          /\ objects[b].last_pos = pos[b]
          /\ ~objects[b].accept_zero

\* C23: neither the activation update nor solve runs to its end over a
\* Deleted body: an update that meets one panics, and so does a solve whose
\* slice references one.
C23_DeletedPanics ==
    [][/\ op' = "update" => Deleted(bodies) = {}
       /\ (Deleted(bodies) # {} /\ op' \in {"update", "panic"}) =>
              /\ op' = "panic"
              /\ \A b \in Deleted(bodies) : bodies'[b] = bodies[b]
       /\ op' = "solve" => Referenced(solved'.constraints) \cap Deleted(bodies) = {}]_vars

\* C24: new panics on exactly the mix factors outside 0.0 .. 1.0, so that
\* a manager that exists has a mix factor inside that range.
C24_MixFactorInRange ==
    (op = "panic") <=> (mix_factor \notin 0 .. MixDen)

\* The last solve ran the position pass.
RanFirstOrder(sv) == \E i \in DOMAIN sv.log : sv.log[i] = "position"

\* Some contact of the slice is as deep as min_depth_for_pos_corr.
DeepContact(cs) == \E i \in DOMAIN cs : cs[i].tag = "RBRB" /\ cs[i].depth >= MinDepth

\* The position pass of the last solve had one row per cached contact, no
\* friction row and no joint row, in both builds.
ContactRowsOnly(sv) ==
    \A D \in Dims :
        /\ Len(sv.rows[D].first_order) = 1
        /\ sv.rows[D].first_order[1].rest_len = Len(sv.rows[D].contacts)
        /\ sv.rows[D].first_order[1].fric_len = 0
        /\ sv.rows[D].first_order[1].reinit =
               {sv.rows[D].contacts[i].rest : i \in DOMAIN sv.rows[D].contacts}
        /\ \A k \in DOMAIN sv.rows[D].joints :
               sv.rows[D].joints[k].rows \cap sv.rows[D].first_order[1].reinit = {}

\* C25, as stated: the position pass of solve runs exactly when
\* pos_corr_factor > 0 and some contact has depth >= min_depth_for_pos_corr;
\* joints neither trigger it nor have rows in it; when it does not run solve
\* writes no transform.
C25_FirstOrderIffPositive ==
    [][op' = "solve" =>
         /\ RanFirstOrder(solved') <=>
                (correction.pos_corr_factor > 0 /\ DeepContact(solved'.constraints))
         /\ RanFirstOrder(solved') => ContactRowsOnly(solved')
         /\ ~RanFirstOrder(solved') => pos' = pos]_vars

\* C25, amended: the position pass of solve runs exactly when
\* pos_corr_factor is not zero and some contact has depth >=
\* min_depth_for_pos_corr; joints neither trigger it nor have rows in it;
\* when it does not run solve writes no transform.
C25_FirstOrderIffNonZero ==
    [][op' = "solve" =>
         /\ RanFirstOrder(solved') <=>
                (correction.pos_corr_factor # 0 /\ DeepContact(solved'.constraints))
         /\ RanFirstOrder(solved') => ContactRowsOnly(solved')
         /\ ~RanFirstOrder(solved') => pos' = pos]_vars

\* A solver with a negative pos_corr_factor has run the position pass on a
\* slice of a deep contact and a joint, and has moved a body.
C25_Witness ==
    /\ op = "solve"
    /\ correction.pos_corr_factor < 0
    /\ RanFirstOrder(solved)
    /\ DeepContact(solved.constraints)
    /\ \E i \in DOMAIN solved.constraints : solved.constraints[i].tag # "RBRB"
    /\ \E b \in BodyIds : pos[b] > 0

\* The rows lo .. lo + n - 1.
RowRange(lo, n) == {lo + k : k \in 0 .. n - 1}

\* C26: in the 2D and the 3D build the rows of solve are in bounds and do
\* not overlap: the i-th cached contact has restitution row i and the
\* friction rows i * (D - 1) .. i * (D - 1) + (D - 2), which are the rows
\* the write-back reads for it; the friction buffer has (D - 1) *
\* cache.len() rows; the joint rows start at cache.len(), D of them for a
\* BallInSocket and D + dim(Orientation) for a Fixed, each joint after the
\* one before it and all inside the restitution buffer.
C26_RowLayout ==
    [][(op' = "solve" /\ solved'.constraints # <<>>) =>
         \A D \in Dims :
             LET L  == solved'.rows[D]
                 cs == solved'.constraints
                 n  == Len(cache'.hash_prev)
             IN  /\ Len(L.contacts) = n /\ Len(L.write_back) = n
                 /\ L.fric_len = (D - 1) * n
                 /\ \A i \in 1 .. n :
                        /\ L.contacts[i].rest = i - 1
                        /\ L.contacts[i].fric = RowRange((i - 1) * (D - 1), D - 1)
                        /\ L.contacts[i].fric \subseteq 0 .. L.fric_len - 1
                        /\ L.write_back[i] = L.contacts[i]
                 /\ \A i, k \in 1 .. n :
                        i # k => L.contacts[i].fric \cap L.contacts[k].fric = {}
                 /\ Len(L.joints) = Len(solved'.jlist)
                 /\ \A k \in DOMAIN L.joints :
                        LET c     == cs[L.joints[k].ci]
                            start == IF k = 1 THEN n
                                     ELSE n + NumJointEquations(D, cs,
                                                  SubSeq(solved'.jlist, 1, k - 1))
                        IN  /\ c.tag \in {"BallInSocket", "Fixed"}
                            /\ L.joints[k].rows =
                                   RowRange(start,
                                            IF c.tag = "Fixed" THEN D + OrientationDim(D) ELSE D)
                            /\ L.joints[k].rows \subseteq L.joints[k].slice
                            /\ L.joints[k].rows \subseteq n .. L.rest_len - 1
                 /\ \A k, m \in DOMAIN L.joints :
                        k # m => L.joints[k].rows \cap L.joints[m].rows = {}]_vars

\* solve has laid out the rows of a slice of a fixed joint followed by a
\* contact: the joint rows come after the row of the contact.
C26_Witness ==
    /\ op = "solve"
    /\ Len(solved.constraints) = 2
    /\ solved.constraints[1].tag = "Fixed"
    /\ solved.constraints[2].tag = "RBRB"
    /\ \A D \in Dims :
          /\ Len(solved.rows[D].contacts) = 1
          /\ Len(solved.rows[D].joints) = 1
          /\ solved.rows[D].joints[1].rows = RowRange(1, D + OrientationDim(D))

(* ------------------------- write guards of update --------------------- *)
\* How often body b is write-locked in the events q.
WriteCount(q, b) ==
    Cardinality({k \in DOMAIN q : Asked(q[k]) = "write" /\ ObjectOf(q[k]) = Body(b)})

\* The write guards alive after the first n events of q.
Held(q, n) ==
    Cardinality({i \in 1 .. n : Asked(q[i]) = "write"})
        - Cardinality({i \in 1 .. n : Asked(q[i]) = "unwrite"})

\* How often body b stands in the list q.
Occurrences(q, b) == Cardinality({k \in DOMAIN q : q[k] = b})

\* C27 as claimed: during one update every body, the pending ones included,
\* is write-locked exactly twice, and no two write guards are alive at once.
C27_TwoWriteLocks ==
    op = "update" =>
        LET w == WriteGuards(consumed)
        IN  /\ \A b \in BodyIds : WriteCount(w, b) = 2
            /\ \A k \in DOMAIN w : Held(w, k) <= 1

\* C27: during one update that runs to its end every body is write-locked
\* once by the energy loop, once by the commit loop and once more for each
\* of its places in the pending list, so exactly twice when it is not
\* pending; no two write guards are alive at once.
C27_TwoPlusPendingWriteLocks ==
    op = "update" =>
        LET w == WriteGuards(consumed)
        IN  /\ \A b \in BodyIds : WriteCount(w, b) = 2 + Occurrences(consumed, b)
            /\ \A b \in BodyIds : b \notin Range(consumed) => WriteCount(w, b) = 2
            /\ \A k \in DOMAIN w : Held(w, k) <= 1
            /\ Held(w, Len(w)) = 0

\* An update has woken a body that stood twice in the pending list, and left
\* another body alone.
C27_Witness ==
    /\ op = "update"
    /\ \E b \in BodyIds : Occurrences(consumed, b) = 2
    /\ \E b \in BodyIds : b \notin Range(consumed)

(* ------------------------- entries of the joint manager --------------- *)
JointTags == {"BallInSocket", "Fixed"}

\* C29: under any sequence of adds, removals and updates the joint table
\* and every reverse list hold BallInSocket and Fixed entries only, and
\* neither update nor remove ends in its "contact RBRB" panic.
C29_NoContactEntry ==
    /\ \A j \in DOMAIN joints : joints[j].tag \in JointTags
    /\ \A b \in DOMAIN body2joints :
          \A i \in DOMAIN body2joints[b] : body2joints[b][i].tag \in JointTags
    /\ op # "panic"

\* remove has walked the reverse list of the body both joints end on, while
\* the table holds a joint of each kind and the reverse list of the other
\* body of the fixed joint is still there.
C29_Witness ==
    /\ op = "remove"
    /\ \E j, k \in DOMAIN joints :
          joints[j].tag = "Fixed" /\ joints[k].tag = "BallInSocket"
    /\ anchor1(1) \in DOMAIN body2joints
    /\ \E b \in BodyIds : b \notin DOMAIN body2joints /\ anchor2(1) = b /\ anchor2(2) = b

(* ------------------------- remove, the other side --------------------- *)
\* The anchor of joint j that is not b.
OtherAnchor(j, b) == IF anchor1(j) = b THEN anchor2(j) ELSE anchor1(j)

\* C30: remove(b) takes every joint of the reverse list of b out of the
\* reverse list of the body at its other end, when there is one, and calls
\* will_activate on that body, which lists it when it is asleep and can
\* move; b may be the first or the second anchor of the joint.
C30_RemoveCleansOtherSide ==
    [][op' = "remove" =>
         \A b \in BodyIds :
             (b \in DOMAIN body2joints /\ b \notin DOMAIN body2joints')
                 => \A i \in DOMAIN body2joints[b] :
                        LET j     == body2joints[b][i].joint
                            other == OtherAnchor(j, b)
                        IN  (other # World /\ other # b) =>
                                /\ \A k \in DOMAIN ListOf(body2joints', other) :
                                       ListOf(body2joints', other)[k].joint # j
                                /\ (bodies[other].can_move /\ ~is_active(bodies[other]))
                                       => Occurrences(to_activate', other)
                                              > Occurrences(to_activate, other)]_vars

\* remove has taken out the body that is the second anchor of the fixed
\* joint: the joint has left the reverse list of its first anchor, a body
\* asleep that is now the only one pending.
C30_Witness ==
    /\ op = "remove"
    /\ 1 \in DOMAIN joints
    /\ anchor2(1) \notin DOMAIN body2joints
    /\ anchor1(1) \in DOMAIN body2joints
    /\ body2joints[anchor1(1)] = <<>>
    /\ ~is_active(bodies[anchor1(1)])
    /\ to_activate = <<anchor1(1)>>

(* ------------------------- the order of the overlapping bodies -------- *)
\* C32: whatever the order in which the collision world lists the bodies of
\* the swept box, the clamp of a body finds the same toi_found and the same
\* min_toi, those the update recorded, and the new translation and the new
\* accept_zero are the ones lines 117-123 compute from them.
C32_ClampOrderIndependent ==
    [][op' = "ccd_update" =>
         \A b \in DOMAIN objects :
             clamped'[b].used =>
                 LET o        == objects[b]
                     movement == pos[b] - o.last_pos
                     rec      == clamped'[b]
                 IN  /\ \A ord \in Orders(BodyIds) :
                            LET r == MinToiIn([seen |-> 0, toi_found |-> FALSE,
                                               min_toi |-> TOIDen],
                                              b, o, rec.tois, ord)
                            IN  /\ r.toi_found = rec.toi_found
                                /\ r.min_toi = rec.min_toi
                     /\ pos'[b] = IF rec.toi_found
                                  THEN pos[b] - (movement * (TOIDen - rec.min_toi)) \div TOIDen
                                  ELSE pos[b]
                     /\ objects'[b].accept_zero = ~rec.toi_found]_vars

\* An update has clamped a body that refuses a time of 0 against one body in
\* touch (time 0) and another one hit halfway: the minimum is the positive
\* time.
C32_Witness ==
    /\ op = "ccd_update"
    /\ \E b \in DOMAIN clamped :
          /\ clamped[b].used
          /\ clamped[b].toi_found
          /\ clamped[b].min_toi = 1
          /\ \E x, y \in BodyIds \ {b} :
                x < y /\ clamped[b].tois[x] = 1 /\ clamped[b].tois[y] = 0

(* ------------------------- no lock taken twice ------------------------ *)
\* The guards alive on the object x after the first n events of q.
HeldOn(q, n, x) ==
    Cardinality({i \in 1 .. n : ObjectOf(q[i]) = x
                                    /\ Asked(q[i]) \in {"read", "write"}})
        - Cardinality({i \in 1 .. n : ObjectOf(q[i]) = x
                                        /\ Asked(q[i]) \in {"unread", "unwrite"}})

\* C31: no pass of the step asks for a write lock on a body or a joint on
\* which it still holds a read or a write guard, also in a scene where a
\* joint has the same body at both anchors, a contact names one body twice
\* or a body stands twice in the pending list.
C31_NoWriteWhileHeld ==
    \A k \in DOMAIN locks.events :
        Asked(locks.events[k]) = "write"
            => HeldOn(locks.events, k - 1, ObjectOf(locks.events[k])) = 0

\* The activation update has run on a body that stands twice in the pending
\* list, with a contact of that body against itself and a joint that has
\* it at both anchors.
C31_Witness ==
    /\ locks.pass = "update"
    /\ \E b \in BodyIds :
          /\ locks.given.pending = <<b, b>>
          /\ \E i, k \in DOMAIN locks.given.constraints :
                LET c == locks.given.constraints[i]
                    d == locks.given.constraints[k]
                IN  /\ c.tag = "RBRB" /\ c.b1 = b /\ c.b2 = b
                    /\ d.tag = "Fixed" /\ d.a1 = b /\ d.a2 = b
          /\ WriteCount(locks.events, b) = 4

====
